---- MODULE Spec2Model ----
(***************************************************************************)
(* Model of the multi-account mail orchestrator:                          *)
(*   src/src/account-manager.ts  (AccountManager)                         *)
(*   src/unnamed/part_003        (EmailProvider, the adapter contract)    *)
(*   src/src/index.ts            (the tool handler)                        *)
(*   src/src/providers/gmail.ts, outlook.ts, src/unnamed/part_001 (IMAP)   *)
(*                                                                         *)
(* Five specifications share the variables:                                *)
(*   Spec     AccountManager.loadAccounts, from the raw manifest text and *)
(*            the environment to the registry and the default account;    *)
(*   OpsSpec  the operations on a registry that a load has produced: the  *)
(*            unified fetchAllUnread, searchAll and getAllFolders, the     *)
(*            single-account tools of src/src/index.ts, and disconnect.    *)
(*   AdapterSpec  one adapter of each provider kind with the mailbox      *)
(*            behind it: connect, disconnect and the message operations,  *)
(*            called one after another.                                    *)
(*   StartSpec  the startup of src/src/index.ts: the load, then the      *)
(*            server, then the tool that lists the registry.               *)
(*   ImapSpec two operations of the IMAP adapter in progress together on  *)
(*            its one connection, command by command.                      *)
(*                                                                         *)
(* Text is a sequence of one-character strings, so that startsWith,       *)
(* endsWith and the ${VAR} substitution are computed on characters.       *)
(* The manifest is taken to be well-formed JSON with placeholders inside  *)
(* string values; the substitution is followed value by value.            *)
(***************************************************************************)
EXTENDS Integers, Sequences, FiniteSets, TLC

VARIABLES
    content,           \* raw manifest: the records of the "accounts" array, unsubstituted
    env,               \* process.env restricted to VarNames
    loadPc,            \* position of loadAccounts: start, loop, connecting, done, threw
    loadError,         \* the error loadAccounts rejected with (NoError while none)
    config,            \* the parsed manifest after substitution (line 56)
    idx,               \* index of the record the for-loop is at (line 58)
    accounts,          \* this.accounts: the Map, as its entries in insertion order
    defaultAccountId,  \* this.defaultAccountId (Null or an id)
    defaultWrites,     \* every assignment to this.defaultAccountId so far, in order
    log,               \* what logger.error was given, in order
    outcome,           \* per record: unconnected, skipped, connecting, connected, failed
    connectCalls,      \* per record: how many times connect() was called on its adapter
    created,           \* per record: the config its adapter was constructed with
    op,                \* the unified operation in progress, or "idle"
    task,              \* per registry entry: the promise of its per-account callback
    returned,          \* per registry entry: what the adapter call settled with
    opResult,          \* how the unified operation settled
    call,              \* the tool request the transport handler is at, or NoCall
    invoked,           \* per adapter: the methods called on it by the operation in progress
    cursor,            \* registry position of the adapter call that is awaited, 0 when none
    reply,             \* how the call settled and what the caller was given
    adapter,           \* one adapter: its kind, its session fields, the mailbox behind it
    journal,           \* the last two calls made on that adapter and how they settled
    transport,         \* index.ts: whether server.connect(transport) has been done
    imap               \* one IMAP connection and the operations in progress on it

vars == <<content, env, loadPc, loadError, config, idx, accounts, defaultAccountId,
          defaultWrites, log, outcome, connectCalls, created, op, task, returned, opResult,
          call, invoked, cursor, reply, adapter, journal, transport, imap>>

loadVars == <<content, env, loadPc, loadError, config, idx, accounts, defaultAccountId,
              defaultWrites, log, outcome, connectCalls, created>>

callVars == <<call, invoked, cursor, reply>>

opVars == <<op, task, returned, opResult, call, invoked, cursor, reply>>

adapterVars == <<adapter, journal>>

outerVars == <<adapterVars, transport, imap>>

-----------------------------------------------------------------------------
(* Bounds and input domains *)

MaxAccounts == 2

\* \w of the placeholder pattern; "p","q" are written in manifests, "s","t" only
\* occur in environment values, "A","B" only in variable names.
WordChars == {"A", "B", "p", "q", "s", "t"}
ManifestChars == {"p", "q"}
EnvChars == {"s", "t"}

VarNames == {<<"A">>, <<"B">>}

Null == "<null>"

\* the character that ends a JSON string
Quote == "\""

NoError == [kind |-> "none", account |-> "", field |-> ""]

-----------------------------------------------------------------------------
(* JSON values of a config field *)

Str(s) == [t |-> "string", s |-> s]
Num == [t |-> "number", s |-> <<"7">>]
Undefined == [t |-> "undefined", s |-> <<>>]

Placeholder(name) == <<"$", "{">> \o name \o <<"}">>

StartsWith(s, p) == Len(s) >= Len(p) /\ SubSeq(s, 1, Len(p)) = p

EndsWith(s, p) == Len(s) >= Len(p) /\ SubSeq(s, Len(s) - Len(p) + 1, Len(s)) = p

-----------------------------------------------------------------------------
(* content.replace(/\$\{(\w+)\}/g, ...)  -- account-manager.ts 47-54 *)

RECURSIVE WordRun(_, _)
\* length of the longest run of \w characters of s that starts at position i
WordRun(s, i) ==
    IF i <= Len(s) /\ s[i] \in WordChars THEN 1 + WordRun(s, i + 1) ELSE 0

\* length of the match of \$\{(\w+)\} at position i of s, 0 when there is none
MatchAt(s, i) ==
    IF i + 3 <= Len(s) /\ s[i] = "$" /\ s[i + 1] = "{"
    THEN LET k == WordRun(s, i + 2)
         IN  IF k >= 1 /\ i + 2 + k <= Len(s) /\ s[i + 2 + k] = "}" THEN k + 3 ELSE 0
    ELSE 0

\* a replacer that leaves the placeholder of an unset variable in the text
EnvValueKeepsPlaceholder(e, name) ==
    IF name \notin DOMAIN e \/ ~e[name].set \/ e[name].v = <<>>
    THEN Placeholder(name)
    ELSE e[name].v

\* the replacer callback (lines 47-54): process.env[name], "" when undefined or empty
EnvValue(e, name) ==
    IF name \notin DOMAIN e \/ ~e[name].set \/ e[name].v = <<>>
    THEN <<>>
    ELSE e[name].v

RECURSIVE ReplaceFrom(_, _, _)
ReplaceFrom(e, s, i) ==
    IF i > Len(s) THEN <<>>
    ELSE LET n == MatchAt(s, i)
         IN  IF n > 0
             THEN EnvValue(e, SubSeq(s, i + 2, i + n - 2)) \o ReplaceFrom(e, s, i + n)
             ELSE <<s[i]>> \o ReplaceFrom(e, s, i + 1)

\* the substitution as it reaches one JSON value of the text
ResolveValue(e, v) ==
    IF v.t = "string" THEN Str(ReplaceFrom(e, v.s, 1)) ELSE v

ResolveConfig(e, c) == [f \in DOMAIN c |-> ResolveValue(e, c[f])]

\* lines 47-54: the substituted text, record by record
Resolved(e, raw) ==
    [i \in 1..Len(raw) |-> [raw[i] EXCEPT !.config = ResolveConfig(e, raw[i].config)]]

\* line 56: JSON.parse throws when a substituted value closed its string early
ParseFails(cfgs) ==
    \E i \in 1..Len(cfgs) : \E f \in DOMAIN cfgs[i].config :
        /\ cfgs[i].config[f].t = "string"
        /\ \E k \in 1..Len(cfgs[i].config[f].s) : cfgs[i].config[f].s[k] = Quote

-----------------------------------------------------------------------------
(* Secret validation -- account-manager.ts 26-29, 86-124 *)

SENSITIVE_FIELDS(provider) ==
    CASE provider = "outlook" -> <<"clientSecret">>
      [] provider = "imap"    -> <<"password">>
      [] OTHER                -> <<>>

\* lines 95-97: the value is reported as a plaintext secret
IsPlaintext(v) ==
    /\ v.t = "string"
    /\ Len(v.s) > 0
    /\ (~StartsWith(v.s, <<"$", "{">>) \/ ~EndsWith(v.s, <<"}">>))

\* the errors validateSecrets can throw on the raw manifest, in the order of its loops
PlaintextErrors(raw) ==
    LET fieldsOf(i) == SENSITIVE_FIELDS(raw[i].provider)
        slots == UNION {{<<i, k>> : k \in 1..Len(fieldsOf(i))} : i \in 1..Len(raw)}
    IN  {h \in slots : IsPlaintext(raw[h[1]].config[fieldsOf(h[1])[h[2]]])}

\* lines 86-106: the error thrown, NoError when the manifest passes
validateSecrets(raw) ==
    LET hits == PlaintextErrors(raw)
    IN  IF hits = {} THEN NoError
        ELSE LET first == CHOOSE h \in hits :
                              \A g \in hits : h[1] < g[1] \/ (h[1] = g[1] /\ h[2] <= g[2])
             IN  [kind |-> "plaintext", account |-> raw[first[1]].id,
                  field |-> SENSITIVE_FIELDS(raw[first[1]].provider)[first[2]]]

\* a check that lets every resolved value through
validateResolvedSecretsOff(account) == NoError

\* lines 115-123
validateResolvedSecrets(account) ==
    LET fields == SENSITIVE_FIELDS(account.provider)
        empty == {k \in 1..Len(fields) :
                    /\ account.config[fields[k]].t = "string"
                    /\ account.config[fields[k]].s = <<>>}
    IN  IF empty = {} THEN NoError
        ELSE [kind |-> "empty-secret", account |-> account.id,
              field |-> fields[CHOOSE k \in empty : \A j \in empty : k <= j]]

\* lines 126-137
KnownProviders == {"gmail", "outlook", "imap"}

createProvider(account) ==
    IF account.provider \in KnownProviders THEN NoError
    ELSE [kind |-> "unknown-provider", account |-> account.id, field |-> ""]

-----------------------------------------------------------------------------
(* The inputs of a load: manifests and environments *)

Ids == {"", "a", "b"}

Unset == [set |-> FALSE, v |-> <<>>]
Set(v) == [set |-> TRUE, v |-> v]

\* A is unset, empty or "s"; B is unset, "ts" or a double quote
Envs ==
    {[n \in VarNames |-> IF n = <<"A">> THEN a ELSE b] :
        a \in {Unset, Set(<<>>), Set(<<"s">>)},
        b \in {Unset, Set(<<"t", "s">>), Set(<<Quote>>)}}

\* the config object of a record: the secret goes where the provider keeps it
MkConfig(provider, secret, user) ==
    [password     |-> IF provider = "imap" THEN secret ELSE Undefined,
     clientSecret |-> IF provider = "outlook" THEN secret ELSE Undefined,
     user         |-> user]

MkRecord(id, name, provider, default, secret, user) ==
    [id |-> id, name |-> name, provider |-> provider, default |-> default,
     config |-> MkConfig(provider, secret, user)]

\* values a manifest may give a sensitive field
SecretValues ==
    { Str(<<"p", "q">>),                                   \* "pq"
      Str(Placeholder(<<"A">>)),                           \* "${A}"
      Str(Placeholder(<<"A">>) \o Placeholder(<<"B">>)),   \* "${A}${B}"
      Str(Placeholder(<<"A">>) \o <<"p">> \o Placeholder(<<"B">>)),  \* "${A}p${B}"
      Str(Placeholder(<<"-">>)),                           \* "${-}"
      Str(Placeholder(<<"A">>) \o <<"q">>),                \* "${A}q"
      Str(<<>>),                                           \* ""
      Num,
      Undefined }

\* records that differ in identity, default mark and provider kind
IdentityRecords ==
    {MkRecord(id, "Work", pk[1], d, pk[2], Str(<<"p">>)) :
        id \in Ids, d \in BOOLEAN,
        pk \in {<<"gmail", Undefined>>, <<"imap", Str(Placeholder(<<"A">>))>>,
                <<"yahoo", Undefined>>}}

\* records that differ in what their config fields hold
SecretRecords ==
    {MkRecord("a", "Work", "imap", FALSE, v, Str(<<"p">>)) : v \in SecretValues}
    \cup {MkRecord("b", "Home", "outlook", FALSE, v, Str(<<"p">>)) :
            v \in {Str(<<"q">>), Str(Placeholder(<<"B">>))}}
    \cup {MkRecord("b", "Home", "gmail", FALSE, Undefined, u) :
            u \in {Str(<<"p">>), Str(Placeholder(<<"B">>)),
                   Str(<<"p">> \o Placeholder(<<"A">>) \o <<"q">>)}}

SeqsUpTo(S, n) == UNION {[1..k -> S] : k \in 0..n}

Manifests == SeqsUpTo(IdentityRecords, MaxAccounts) \cup SeqsUpTo(SecretRecords, MaxAccounts)

-----------------------------------------------------------------------------
(* The registry: a Map, kept as its entries in insertion order *)

Keys(m) == {m[k].id : k \in 1..Len(m)}

\* a registry that takes every entry it is given, whatever its key
MapAppend(m, id, entry) == Append(m, entry)

\* Map.prototype.set (line 64): a present key keeps its place and gets the new value
MapSet(m, id, entry) ==
    IF \E k \in 1..Len(m) : m[k].id = id
    THEN [k \in 1..Len(m) |-> IF m[k].id = id THEN entry ELSE m[k]]
    ELSE Append(m, entry)

\* a load that never looks at the default mark
MarkDefaultIgnored(current, account) == current

\* lines 67-69
MarkDefault(current, account) ==
    IF account.default THEN account.id ELSE current

\* a fallback that takes the entry the registry got last
FallbackLast(current, accts) ==
    IF (current = Null \/ current = "") /\ Len(accts) > 0 THEN accts[Len(accts)].id ELSE current

\* lines 75-77: !this.defaultAccountId holds for null and for ""
FallbackDefault(current, accts) ==
    IF (current = Null \/ current = "") /\ Len(accts) > 0 THEN accts[1].id ELSE current

\* a load that makes the assignment of line 68 for no record
MarkWritesNone(writes, account, at) == writes

\* line 68 as an assignment: the line, the value written and the record the loop is at
MarkWrites(writes, account, at) ==
    IF account.default
    THEN Append(writes, [line |-> 68, value |-> account.id, at |-> at])
    ELSE writes

\* line 76 as an assignment, made under the condition of line 75
FallbackWrites(writes, current, accts, at) ==
    IF (current = Null \/ current = "") /\ Len(accts) > 0
    THEN Append(writes, [line |-> 76, value |-> accts[1].id, at |-> at])
    ELSE writes

\* a loop without the catch: the error leaves loadAccounts
RethrowLoadError(err) == err

\* lines 70-72: what leaves the try block; the catch logs the error and swallows it
CatchLoadError(err) == NoError

-----------------------------------------------------------------------------
(* Account resolution and the values of a call -- account-manager.ts 150-158, *)
(* index.ts 134-273                                                            *)

\* an argument the request leaves out (undefined)
Absent == "<absent>"

\* JavaScript truthiness of an id: undefined, null and "" are falsy
Truthy(x) == x # Absent /\ x # Null /\ x # ""

\* position of the entry of key id in the registry, 0 when the Map has none
Position(accts, id) ==
    IF \E k \in 1..Len(accts) : accts[k].id = id
    THEN CHOOSE k \in 1..Len(accts) : accts[k].id = id
    ELSE 0

\* new Error(message); the message is kept as its pieces
ErrorOf(message) == [instance |-> TRUE, message |-> message]

NoDefaultAccount == ErrorOf(<<"No account specified and no default set">>)

AccountNotFound(id) == ErrorOf(<<"Account not found: ", id>>)

\* a resolution that takes the default account whatever id is asked for
getProviderOfDefault(accts, dflt, accountId) ==
    IF ~Truthy(dflt) THEN [ok |-> FALSE, at |-> 0, error |-> NoDefaultAccount]
    ELSE IF Position(accts, dflt) = 0
    THEN [ok |-> FALSE, at |-> 0, error |-> AccountNotFound(dflt)]
    ELSE [ok |-> TRUE, at |-> Position(accts, dflt), error |-> ErrorOf(<<>>)]

\* lines 150-158: the registry position of the account, or the error thrown
getProvider(accts, dflt, accountId) ==
    LET id == IF Truthy(accountId) THEN accountId ELSE dflt
    IN  IF ~Truthy(id) THEN [ok |-> FALSE, at |-> 0, error |-> NoDefaultAccount]
        ELSE IF Position(accts, id) = 0
        THEN [ok |-> FALSE, at |-> 0, error |-> AccountNotFound(id)]
        ELSE [ok |-> TRUE, at |-> Position(accts, id), error |-> ErrorOf(<<>>)]

\* what an adapter call can reject with: an Error with a message, an Error
\* without one, a value that is no Error
AdapterErrors ==
    {ErrorOf(<<"backend">>), ErrorOf(<<>>), [instance |-> FALSE, message |-> <<>>]}

NoCall == [tool |-> "none", accountId |-> Absent]

NoReply == [state |-> "none", manager |-> "none", isError |-> FALSE, text |-> <<>>,
            value |-> <<>>, logged |-> <<>>]

\* the call returned normally: the handler answers with the text of the result
Succeed(manager, text, value, logged) ==
    [state |-> "responded", manager |-> manager, isError |-> FALSE, text |-> text,
     value |-> value, logged |-> logged]

\* a handler that answers a failed call like a successful one
HandlerCatchAsSuccess(manager, err) ==
    [state |-> "responded", manager |-> manager, isError |-> FALSE, text |-> err.message,
     value |-> <<>>, logged |-> <<>>]

\* a catch that puts the tool and the account of the request before the message
HandlerCatchWithContext(manager, err) ==
    [state |-> "responded", manager |-> manager, isError |-> TRUE,
     text |-> <<"Error: ", call.tool, call.accountId>>
                \o (IF err.instance THEN err.message ELSE <<"Unknown">>),
     value |-> <<>>, logged |-> <<>>]

\* index.ts 266-272: the catch of the handler
HandlerCatch(manager, err) ==
    [state |-> "responded", manager |-> manager, isError |-> TRUE,
     text |-> <<"Error: ">> \o (IF err.instance THEN err.message ELSE <<"Unknown">>),
     value |-> <<>>, logged |-> <<>>]

\* an adapter call of the operation in progress: not made, awaited, or settled
\* with a value or an error
Unissued(method) ==
    [state |-> "unissued", method |-> method, value |-> <<>>, error |-> ErrorOf(<<>>)]

Issue(c) == [c EXCEPT !.state = "pending"]

Fulfil(c, value) == [c EXCEPT !.state = "fulfilled", !.value = value]

Reject(c, err) == [c EXCEPT !.state = "rejected", !.error = err]

\* an adapter that is called again right after it was called
InvokeTwice(inv, i, method) == [inv EXCEPT ![i] = @ \o <<method, method>>]

\* one call of a method on adapter i
Invoke(inv, i, method) == [inv EXCEPT ![i] = Append(@, method)]

\* a map() that stops after the entry at position k
InvokeFirstOnly(inv, accts, k, method) ==
    IF k > Len(accts) THEN inv ELSE Invoke(inv, accts[k].provider, method)

RECURSIVE InvokeFrom(_, _, _, _)
\* map(): the method is called on the adapter of every entry from position k on
InvokeFrom(inv, accts, k, method) ==
    IF k > Len(accts) THEN inv
    ELSE InvokeFrom(Invoke(inv, accts[k].provider, method), accts, k + 1, method)

-----------------------------------------------------------------------------
(* loadAccounts -- account-manager.ts 40-80 *)

NoAdapter == [made |-> FALSE, config |-> MkConfig("gmail", Undefined, Undefined)]

LoadInit ==
    /\ content \in Manifests
    /\ env \in Envs
    /\ loadPc = "start"
    /\ loadError = NoError
    /\ config = <<>>
    /\ idx = 0
    /\ accounts = <<>>
    /\ defaultAccountId = Null
    /\ defaultWrites = <<>>
    /\ log = <<>>
    /\ outcome = [i \in 1..Len(content) |-> "unconnected"]
    /\ connectCalls = [i \in 1..Len(content) |-> 0]
    /\ created = [i \in 1..Len(content) |-> NoAdapter]

\* no adapter is followed
Unbuilt == [kind |-> "none", handle |-> "null", transporter |-> FALSE, era |-> "new",
            box |-> <<>>]

NoEntry == [method |-> "none", id |-> "", state |-> "none", value |-> <<>>,
            error |-> ErrorOf(<<>>), era |-> "new", pre |-> <<>>, box |-> <<>>,
            handle |-> "null", transporter |-> FALSE]

NoJournal == [prev |-> NoEntry, last |-> NoEntry]

\* no connection is followed
NoImap == [selected |-> [name |-> "", readOnly |-> TRUE], box |-> <<>>, ops |-> <<>>]

AdapterIdle ==
    /\ adapter = Unbuilt
    /\ journal = NoJournal
    /\ imap = NoImap

OpsIdle ==
    /\ op = "idle"
    /\ task = <<>>
    /\ returned = <<>>
    /\ opResult = [state |-> "none", value |-> <<>>]
    /\ call = NoCall
    /\ invoked = [i \in 1..Len(content) |-> <<>>]
    /\ cursor = 0
    /\ reply = NoReply

\* index.ts 16-21: the manager is constructed, the server is not yet
Init == LoadInit /\ OpsIdle /\ AdapterIdle /\ transport = "closed"

\* the loop moves on from record idx with the registry and default it has now;
\* after the last record lines 75-79 run in the same turn
Advance(accts, dflt, writes) ==
    /\ accounts' = accts
    /\ idx' = idx + 1
    /\ IF idx >= Len(config)
       THEN /\ loadPc' = "done"
            /\ defaultAccountId' = FallbackDefault(dflt, accts)
            /\ defaultWrites' = FallbackWrites(writes, dflt, accts, idx + 1)
       ELSE /\ loadPc' = "loop"
            /\ defaultAccountId' = dflt
            /\ defaultWrites' = writes

\* an error raised inside the try block of record idx (lines 59-72)
Fail(err, how) ==
    IF CatchLoadError(err) = NoError
    THEN /\ log' = Append(log, [name |-> config[idx].name, error |-> err])
         /\ outcome' = [outcome EXCEPT ![idx] = how]
         /\ loadError' = loadError
         /\ Advance(accounts, defaultAccountId, defaultWrites)
    ELSE /\ loadPc' = "threw"
         /\ loadError' = CatchLoadError(err)
         /\ outcome' = [outcome EXCEPT ![idx] = how]
         /\ UNCHANGED <<log, accounts, idx, defaultAccountId, defaultWrites>>

\* line 41: fs.readFile rejects
LoadReadFails ==
    /\ loadPc = "start"
    /\ loadPc' = "threw"
    /\ loadError' = [kind |-> "readfile", account |-> "", field |-> ""]
    /\ UNCHANGED <<content, env, config, idx, accounts, defaultAccountId, defaultWrites,
                   log, outcome, connectCalls, created>>
    /\ UNCHANGED opVars
    /\ UNCHANGED outerVars

\* lines 41-56: the text is read, validated raw, substituted and parsed
LoadBegin ==
    /\ loadPc = "start"
    /\ LET err == validateSecrets(content)
       IN  IF err # NoError
           THEN /\ loadPc' = "threw"
                /\ loadError' = err
                /\ UNCHANGED <<config, idx, accounts, defaultAccountId, defaultWrites>>
           ELSE IF ParseFails(Resolved(env, content))
           THEN /\ loadPc' = "threw"
                /\ loadError' = [kind |-> "json", account |-> "", field |-> ""]
                /\ UNCHANGED <<config, idx, accounts, defaultAccountId, defaultWrites>>
           ELSE /\ config' = Resolved(env, content)
                /\ loadError' = loadError
                /\ idx' = 1
                /\ accounts' = accounts
                /\ IF Len(content) = 0
                   THEN /\ loadPc' = "done"
                        /\ defaultAccountId' = FallbackDefault(defaultAccountId, accounts)
                        /\ defaultWrites' = FallbackWrites(defaultWrites, defaultAccountId,
                                                           accounts, 1)
                   ELSE /\ loadPc' = "loop"
                        /\ defaultAccountId' = defaultAccountId
                        /\ defaultWrites' = defaultWrites
    /\ UNCHANGED <<content, env, log, outcome, connectCalls, created>>
    /\ UNCHANGED opVars
    /\ UNCHANGED outerVars

\* lines 58-62: the record's secrets are checked, its adapter is made, connect() is called
LoadStep ==
    /\ loadPc = "loop"
    /\ LET account == config[idx]
           e1 == validateResolvedSecrets(account)
           e2 == createProvider(account)
       IN  IF e1 # NoError
           THEN Fail(e1, "skipped") /\ UNCHANGED <<connectCalls, created>>
           ELSE IF e2 # NoError
           THEN Fail(e2, "skipped") /\ UNCHANGED <<connectCalls, created>>
           ELSE /\ created' = [created EXCEPT ![idx] = [made |-> TRUE, config |-> account.config]]
                /\ connectCalls' = [connectCalls EXCEPT ![idx] = @ + 1]
                /\ outcome' = [outcome EXCEPT ![idx] = "connecting"]
                /\ loadPc' = "connecting"
                /\ UNCHANGED <<loadError, idx, accounts, defaultAccountId, defaultWrites, log>>
    /\ UNCHANGED <<content, env, config>>
    /\ UNCHANGED opVars
    /\ UNCHANGED outerVars

\* lines 62-69: connect() resolves
ConnectResolve ==
    /\ loadPc = "connecting"
    /\ LET account == config[idx]
       IN  /\ outcome' = [outcome EXCEPT ![idx] = "connected"]
           /\ Advance(MapSet(accounts, account.id,
                             [id |-> account.id, config |-> account, provider |-> idx]),
                      MarkDefault(defaultAccountId, account),
                      MarkWrites(defaultWrites, account, idx))
    /\ UNCHANGED <<content, env, config, loadError, log, connectCalls, created>>
    /\ UNCHANGED opVars
    /\ UNCHANGED outerVars

\* lines 62, 70-72: connect() rejects
ConnectReject ==
    /\ loadPc = "connecting"
    /\ Fail([kind |-> "connect", account |-> config[idx].id, field |-> ""], "failed")
    /\ UNCHANGED <<content, env, config, connectCalls, created>>
    /\ UNCHANGED opVars
    /\ UNCHANGED outerVars

Next ==
    \/ LoadReadFails
    \/ LoadBegin
    \/ LoadStep
    \/ ConnectResolve
    \/ ConnectReject

Spec == Init /\ [][Next]_vars

-----------------------------------------------------------------------------
(* Messages and the merge -- account-manager.ts 163-209, 263-270 *)

EmailIds == {"m1", "m2"}
Dates == {1, 2, 3}

Emails == [id : EmailIds, date : Dates]

\* what one adapter call can resolve with: messages with distinct ids, in any order
Listings ==
    {l \in SeqsUpTo(Emails, Cardinality(EmailIds)) :
        \A x, y \in 1..Len(l) : x # y => l[x].id # l[y].id}

\* a tagging that takes the account fields from the first entry of the registry
tagEmailFromFirst(email, cfg) ==
    [id |-> email.id, date |-> email.date,
     accountId |-> accounts[1].config.id, accountName |-> accounts[1].config.name,
     providerType |-> accounts[1].config.provider]

\* lines 263-270: { ...email, accountId, accountName, providerType }
tagEmail(email, cfg) ==
    [f \in DOMAIN email \cup {"accountId", "accountName", "providerType"} |->
        CASE f = "accountId"    -> cfg.id
          [] f = "accountName"  -> cfg.name
          [] f = "providerType" -> cfg.provider
          [] OTHER              -> email[f]]

\* a callback without the try/catch: the rejection of the adapter call gets out
CallbackUncaught(result, acc) ==
    IF result.state = "fulfilled"
    THEN [state |-> "fulfilled", logged |-> Null,
          value |-> [j \in 1..Len(result.emails) |-> tagEmail(result.emails[j], acc.config)]]
    ELSE [state |-> "rejected", logged |-> Null, value |-> <<>>]

\* lines 166-174, 191-199: the per-account callback once the adapter call settled
Callback(result, acc) ==
    IF result.state = "fulfilled"
    THEN [state |-> "fulfilled", logged |-> Null,
          value |-> [j \in 1..Len(result.emails) |-> tagEmail(result.emails[j], acc.config)]]
    ELSE [state |-> "fulfilled", logged |-> acc.config.name, value |-> <<>>]

\* a combinator that is fulfilled as soon as one of the promises has settled
PromiseFirstSettled(ps) ==
    IF ps = <<>> \/ \E k \in 1..Len(ps) : ps[k].state # "pending"
    THEN [state |-> "fulfilled", value |-> [k \in 1..Len(ps) |-> ps[k].value]]
    ELSE [state |-> "pending", value |-> <<>>]

\* Promise.all (lines 176, 201): rejected with the first rejection, fulfilled when
\* every promise is, pending otherwise
PromiseAll(ps) ==
    IF \E k \in 1..Len(ps) : ps[k].state = "rejected"
    THEN [state |-> "rejected", value |-> <<>>]
    ELSE IF \A k \in 1..Len(ps) : ps[k].state = "fulfilled"
    THEN [state |-> "fulfilled", value |-> [k \in 1..Len(ps) |-> ps[k].value]]
    ELSE [state |-> "pending", value |-> <<>>]

RECURSIVE Flatten(_)
\* lines 177-179, 202-204: results.push(...emails) for each account in turn
Flatten(lists) ==
    IF lists = <<>> THEN <<>> ELSE Head(lists) \o Flatten(Tail(lists))

\* a comparator that orders oldest first
CompareAscending(a, b) == a.date - b.date

\* lines 182, 206: the comparator, new Date(b.date).getTime() - new Date(a.date).getTime()
Compare(a, b) == b.date - a.date

\* an insertion that puts x before the elements the comparator ties it with
InsertBeforeTies(sorted, x) ==
    LET later == {k \in 1..Len(sorted) : Compare(sorted[k], x) >= 0}
        at == IF later = {} THEN Len(sorted) + 1
              ELSE CHOOSE k \in later : \A j \in later : k <= j
    IN  SubSeq(sorted, 1, at - 1) \o <<x>> \o SubSeq(sorted, at, Len(sorted))

\* x goes behind every element the comparator does not put after it
InsertSorted(sorted, x) ==
    LET later == {k \in 1..Len(sorted) : Compare(sorted[k], x) > 0}
        at == IF later = {} THEN Len(sorted) + 1
              ELSE CHOOSE k \in later : \A j \in later : k <= j
    IN  SubSeq(sorted, 1, at - 1) \o <<x>> \o SubSeq(sorted, at, Len(sorted))

RECURSIVE SortFrom(_, _)
SortFrom(sorted, rest) ==
    IF rest = <<>> THEN sorted ELSE SortFrom(InsertSorted(sorted, Head(rest)), Tail(rest))

\* Array.prototype.sort with the comparator: a stable sort
Sort(list) == SortFrom(<<>>, list)

-----------------------------------------------------------------------------
(* fetchAllUnread and searchAll -- account-manager.ts 163-209 *)

FanOps == {"fetchAllUnread", "searchAll"}

AdapterMethod(kind) == IF kind = "fetchAllUnread" THEN "fetchUnread" ELSE "search"

\* accounts a load can have connected
Fleet ==
    { MkRecord("a", "Work", "gmail", FALSE, Undefined, Str(<<"p">>)),
      MkRecord("b", "Home", "imap", FALSE, Str(Placeholder(<<"A">>)), Str(<<"p">>)),
      MkRecord("c", "Work", "outlook", FALSE, Str(Placeholder(<<"B">>)), Str(<<"q">>)) }

FleetEnv == [n \in VarNames |-> IF n = <<"A">> THEN Set(<<"s">>) ELSE Set(<<"t", "s">>)]

FleetRank(id) == CASE id = "a" -> 1 [] id = "b" -> 2 [] OTHER -> 3

\* manifests of fleet accounts with distinct ids, listed in the order of FleetRank
FleetManifests ==
    {m \in SeqsUpTo(Fleet, Cardinality(Fleet)) :
        \A x, y \in 1..Len(m) : x < y => FleetRank(m[x].id) < FleetRank(m[y].id)}

\* the state a load of a fleet manifest ends in when every account connects
OpsInit ==
    /\ content \in FleetManifests
    /\ env = FleetEnv
    /\ loadPc = "done"
    /\ loadError = NoError
    /\ config = Resolved(env, content)
    /\ idx = Len(content) + 1
    /\ accounts = [i \in 1..Len(content) |->
                      [id |-> config[i].id, config |-> config[i], provider |-> i]]
    /\ defaultAccountId = FallbackDefault(Null, accounts)
    /\ defaultWrites = FallbackWrites(<<>>, Null, accounts, Len(content) + 1)
    /\ log = <<>>
    /\ outcome = [i \in 1..Len(content) |-> "connected"]
    /\ connectCalls = [i \in 1..Len(content) |-> 1]
    /\ created = [i \in 1..Len(content) |-> [made |-> TRUE, config |-> config[i].config]]
    /\ OpsIdle
    /\ AdapterIdle
    /\ transport = "connected"

\* lines 163-174, 188-199: the call; map() issues the adapter call of every entry
FanStart(kind) ==
    /\ loadPc = "done"
    /\ op = "idle"
    /\ op' = kind
    /\ task' = [k \in 1..Len(accounts) |-> [state |-> "pending", logged |-> Null, value |-> <<>>]]
    /\ returned' = [k \in 1..Len(accounts) |->
                       [state |-> "pending", method |-> AdapterMethod(kind), emails |-> <<>>]]
    /\ opResult' = [state |-> "none", value |-> <<>>]
    /\ invoked' = InvokeFrom(invoked, accounts, 1, AdapterMethod(kind))
    /\ UNCHANGED <<call, cursor, reply>>
    /\ UNCHANGED loadVars
    /\ UNCHANGED outerVars

Settle(k, result) ==
    /\ returned' = [returned EXCEPT ![k] = result]
    /\ task' = [task EXCEPT ![k] = Callback(result, accounts[k])]
    /\ UNCHANGED <<op, opResult>>
    /\ UNCHANGED callVars
    /\ UNCHANGED loadVars
    /\ UNCHANGED outerVars

\* lines 168-169, 193-194: the adapter call of entry k resolves
AdapterResolve(k, emails) ==
    /\ op \in FanOps
    /\ k \in 1..Len(returned)
    /\ returned[k].state = "pending"
    /\ Settle(k, [returned[k] EXCEPT !.state = "fulfilled", !.emails = emails])

\* lines 170-173, 195-198: the adapter call of entry k rejects
AdapterReject(k) ==
    /\ op \in FanOps
    /\ k \in 1..Len(returned)
    /\ returned[k].state = "pending"
    /\ Settle(k, [returned[k] EXCEPT !.state = "rejected"])

\* lines 176-184, 201-208: Promise.all settles; the results are merged and sorted
FanFinish ==
    /\ op \in FanOps
    /\ opResult.state = "none"
    /\ LET all == PromiseAll(task)
       IN  /\ all.state # "pending"
           /\ opResult' = IF all.state = "rejected"
                          THEN [state |-> "threw", value |-> <<>>]
                          ELSE [state |-> "returned", value |-> Sort(Flatten(all.value))]
    /\ UNCHANGED <<op, task, returned>>
    /\ UNCHANGED callVars
    /\ UNCHANGED loadVars
    /\ UNCHANGED outerVars

\* the caller has the result; the manager is ready for the next call
FanDeliver ==
    /\ op \in FanOps
    /\ opResult.state # "none"
    /\ op' = "idle"
    /\ task' = <<>>
    /\ returned' = <<>>
    /\ opResult' = [state |-> "none", value |-> <<>>]
    /\ invoked' = [i \in DOMAIN invoked |-> <<>>]
    /\ UNCHANGED <<call, cursor, reply>>
    /\ UNCHANGED loadVars
    /\ UNCHANGED outerVars

-----------------------------------------------------------------------------
(* The single-account tools -- index.ts 134-273, account-manager.ts 235-260 *)

\* tools that go through a single-account method of the manager
ManagerTools == {"get_email", "mark_as_read", "mark_as_unread", "delete_email", "send_email"}

\* tools the handler serves from one adapter itself when accountId is truthy
DirectTools == {"fetch_unread_emails", "search_emails"}

SingleTools == ManagerTools \cup DirectTools

\* the adapter method a tool ends in
ToolMethod(tool) ==
    CASE tool = "get_email"           -> "getMessage"
      [] tool = "mark_as_read"        -> "markAsRead"
      [] tool = "mark_as_unread"      -> "markAsUnread"
      [] tool = "delete_email"        -> "deleteEmail"
      [] tool = "send_email"          -> "sendEmail"
      [] tool = "fetch_unread_emails" -> "fetchUnread"
      [] OTHER                        -> "search"

SingleMethods == {ToolMethod(t) : t \in SingleTools}

\* the accountId of a request: left out, empty, two fleet ids, an id no manifest has
AccountArgs == {Absent, "", "a", "c", "z"}

\* what the adapter method can resolve with: null or a message, a listing,
\* the id of the message sent, nothing
AdapterValues(method) ==
    CASE method = "getMessage"                -> {<<>>} \cup {<<e>> : e \in Emails}
      [] method \in {"fetchUnread", "search"} -> Listings
      [] method = "sendEmail"                 -> {<<"x1">>}
      [] OTHER                                -> {<<>>}

\* a tagging that gives the id asked for as the display name too
HandlerTagUnnamed(email, accountId, cfg) ==
    [id |-> email.id, date |-> email.date, accountId |-> accountId, accountName |-> accountId]

\* index.ts 157-161, 193-197: { ...e, accountId, accountName }
HandlerTag(email, accountId, cfg) ==
    [f \in DOMAIN email \cup {"accountId", "accountName"} |->
        CASE f = "accountId"   -> accountId
          [] f = "accountName" -> cfg.name
          [] OTHER             -> email[f]]

\* index.ts 167-180, 202-214: the fields of a message the two listing tools put
\* into their answer, on the single-account path and on the unified path alike
Summary(e) ==
    [accountId |-> e.accountId, accountName |-> e.accountName, id |-> e.id, date |-> e.date]

\* how the manager call of the tool settles when its adapter call resolved
ManagerSettles(tool) == IF tool \in ManagerTools THEN "resolved" ELSE "direct"

\* how it settles when getProvider or the adapter call threw
ManagerFails(tool) == IF tool \in ManagerTools THEN "rejected" ELSE "direct"

\* index.ts 218-265: the response to a call whose adapter call resolved with result;
\* text "json" stands for JSON.stringify of the value kept beside it
ToolResult(tool, accountId, acc, result) ==
    CASE tool = "get_email" ->
            Succeed("resolved", <<"json">>,
                    IF result = <<>> THEN <<>> ELSE <<tagEmail(result[1], acc.config)>>, <<>>)
      [] tool \in DirectTools ->
            Succeed("direct", <<"json">>,
                    [j \in 1..Len(result) |->
                        Summary(HandlerTag(result[j], accountId, acc.config))],
                    <<>>)
      [] tool = "send_email" ->
            Succeed("resolved", <<"Email sent. ID: ">> \o result, <<>>, <<>>)
      [] tool = "mark_as_read" ->
            Succeed("resolved", <<"Email marked as read">>, <<>>, <<>>)
      [] tool = "mark_as_unread" ->
            Succeed("resolved", <<"Email marked as unread">>, <<>>, <<>>)
      [] OTHER ->
            Succeed("resolved", <<"Email deleted">>, <<>>, <<>>)

\* index.ts 134-259, account-manager.ts 235-259: the handler takes the request,
\* getProvider resolves the account, the adapter method is called
ToolCall(tool, accountId) ==
    /\ transport = "connected"
    /\ op = "idle"
    /\ tool \in DirectTools => Truthy(accountId)
    /\ op' = ToolMethod(tool)
    /\ call' = [tool |-> tool, accountId |-> accountId]
    /\ LET r == getProvider(accounts, defaultAccountId, accountId)
           none == [k \in 1..Len(accounts) |-> Unissued(ToolMethod(tool))]
       IN  IF r.ok
           THEN /\ invoked' = Invoke(invoked, accounts[r.at].provider, ToolMethod(tool))
                /\ returned' = [none EXCEPT ![r.at] = Issue(@)]
                /\ cursor' = r.at
                /\ reply' = NoReply
           ELSE /\ reply' = HandlerCatch(ManagerFails(tool), r.error)
                /\ returned' = none
                /\ UNCHANGED <<invoked, cursor>>
    /\ UNCHANGED <<task, opResult>>
    /\ UNCHANGED loadVars
    /\ UNCHANGED outerVars

\* the adapter call resolves; the manager call returns and the handler answers
SingleResolve ==
    /\ op \in SingleMethods
    /\ cursor > 0
    /\ reply.state = "none"
    /\ \E result \in AdapterValues(op) :
          /\ returned' = [returned EXCEPT ![cursor] = Fulfil(@, result)]
          /\ reply' = ToolResult(call.tool, call.accountId, accounts[cursor], result)
    /\ cursor' = 0
    /\ UNCHANGED <<op, call, invoked>>
    /\ UNCHANGED <<task, opResult>>
    /\ UNCHANGED loadVars
    /\ UNCHANGED outerVars

\* the adapter call rejects; nothing between the adapter and the handler catches
SingleReject(err) ==
    /\ op \in SingleMethods
    /\ cursor > 0
    /\ reply.state = "none"
    /\ returned' = [returned EXCEPT ![cursor] = Reject(@, err)]
    /\ reply' = HandlerCatch(ManagerFails(call.tool), err)
    /\ cursor' = 0
    /\ UNCHANGED <<op, call, invoked>>
    /\ UNCHANGED <<task, opResult>>
    /\ UNCHANGED loadVars
    /\ UNCHANGED outerVars

-----------------------------------------------------------------------------
(* getAllFolders -- account-manager.ts 212-229 *)

FolderLists == {<<>>, <<"INBOX">>, <<"Sent", "INBOX">>}

\* lines 218-222: the group of an account whose getFolders resolved
FolderGroup(acc, folders) ==
    [accountId |-> acc.id, accountName |-> acc.config.name, folders |-> folders]

\* a catch that gives the failing account a group without folders
FailedGroupEmpty(groups, acc) == Append(groups, FolderGroup(acc, <<>>))

\* lines 223-225: the catch pushes nothing
FailedGroup(groups, acc) == groups

\* line 215, 217: the loop reaches position k and calls getFolders there; after
\* the last entry the results are returned (line 228)
FoldersAt(k, groups, logged, calls) ==
    IF k <= Len(accounts)
    THEN /\ cursor' = k
         /\ invoked' = Invoke(invoked, accounts[k].provider, "getFolders")
         /\ returned' = [calls EXCEPT ![k] = Issue(@)]
         /\ reply' = [NoReply EXCEPT !.value = groups, !.logged = logged]
    ELSE /\ cursor' = 0
         /\ invoked' = invoked
         /\ returned' = calls
         /\ reply' = Succeed("resolved", <<"json">>, groups, logged)

\* lines 212-217: the call
FoldersStart ==
    /\ transport = "connected"
    /\ op = "idle"
    /\ op' = "getAllFolders"
    /\ call' = [tool |-> "get_all_folders", accountId |-> Absent]
    /\ FoldersAt(1, <<>>, <<>>, [k \in 1..Len(accounts) |-> Unissued("getFolders")])
    /\ UNCHANGED <<task, opResult>>
    /\ UNCHANGED loadVars
    /\ UNCHANGED outerVars

\* lines 217-222: getFolders of the entry resolves, its group is pushed
FoldersResolve(folders) ==
    /\ op = "getAllFolders"
    /\ cursor > 0
    /\ FoldersAt(cursor + 1,
                 Append(reply.value, FolderGroup(accounts[cursor], folders)),
                 reply.logged,
                 [returned EXCEPT ![cursor] = Fulfil(@, folders)])
    /\ UNCHANGED <<op, call>>
    /\ UNCHANGED <<task, opResult>>
    /\ UNCHANGED loadVars
    /\ UNCHANGED outerVars

\* lines 223-225: getFolders of the entry rejects, the error is logged
FoldersReject ==
    /\ op = "getAllFolders"
    /\ cursor > 0
    /\ \E err \in AdapterErrors :
          FoldersAt(cursor + 1,
                    FailedGroup(reply.value, accounts[cursor]),
                    Append(reply.logged, accounts[cursor].config.name),
                    [returned EXCEPT ![cursor] = Reject(@, err)])
    /\ UNCHANGED <<op, call>>
    /\ UNCHANGED <<task, opResult>>
    /\ UNCHANGED loadVars
    /\ UNCHANGED outerVars

-----------------------------------------------------------------------------
(* list_accounts -- index.ts 142-146, account-manager.ts 140-147 *)

\* a listing that marks the accounts the manifest marked
getAccountsAsMarked(accts, dflt) ==
    [k \in 1..Len(accts) |->
        [id |-> accts[k].id, name |-> accts[k].config.name,
         provider |-> accts[k].config.provider, isDefault |-> accts[k].config.default]]

\* lines 140-147: one row per entry of the Map, in insertion order
getAccounts(accts, dflt) ==
    [k \in 1..Len(accts) |->
        [id |-> accts[k].id, name |-> accts[k].config.name,
         provider |-> accts[k].config.provider, isDefault |-> accts[k].id = dflt]]

\* a listing that sets the default anew from the registry while it lists
ListAccountsRepairing ==
    /\ transport = "connected"
    /\ op = "idle"
    /\ op' = "getAccounts"
    /\ call' = [tool |-> "list_accounts", accountId |-> Absent]
    /\ defaultAccountId' = FallbackDefault(Null, accounts)
    /\ reply' = Succeed("resolved", <<"json">>, getAccounts(accounts, defaultAccountId'), <<>>)
    /\ UNCHANGED <<invoked, cursor, returned, task, opResult>>
    /\ UNCHANGED <<content, env, loadPc, loadError, config, idx, accounts, defaultWrites,
                   log, outcome, connectCalls, created>>
    /\ UNCHANGED outerVars

\* index.ts 142-146: the tool lists the registry; getAccounts is synchronous
ListAccounts ==
    /\ transport = "connected"
    /\ op = "idle"
    /\ op' = "getAccounts"
    /\ call' = [tool |-> "list_accounts", accountId |-> Absent]
    /\ reply' = Succeed("resolved", <<"json">>, getAccounts(accounts, defaultAccountId), <<>>)
    /\ UNCHANGED <<invoked, cursor, returned, task, opResult>>
    /\ UNCHANGED loadVars
    /\ UNCHANGED outerVars

-----------------------------------------------------------------------------
(* disconnect -- account-manager.ts 273-282 *)

\* a catch that gives the loop up: the entries after the failing one are skipped
AbandonAfterError(k) == Len(accounts) + 1

\* lines 277-280: the catch logs and the loop goes on with the next entry
ContinueAfterError(k) == k + 1

\* lines 274-281: the loop reaches position k and calls disconnect() there; after
\* the last entry the Map is cleared
DisconnectAt(k, logged, calls) ==
    IF k <= Len(accounts)
    THEN /\ cursor' = k
         /\ invoked' = Invoke(invoked, accounts[k].provider, "disconnect")
         /\ returned' = [calls EXCEPT ![k] = Issue(@)]
         /\ reply' = [NoReply EXCEPT !.logged = logged]
         /\ accounts' = accounts
    ELSE /\ cursor' = 0
         /\ invoked' = invoked
         /\ returned' = calls
         /\ reply' = Succeed("resolved", <<>>, <<>>, logged)
         /\ accounts' = <<>>

DisconnectFrame ==
    /\ UNCHANGED <<content, env, loadPc, loadError, config, idx, defaultAccountId,
                   defaultWrites, log, outcome, connectCalls, created>>
    /\ UNCHANGED <<task, opResult>>
    /\ UNCHANGED outerVars

DisconnectStart ==
    /\ loadPc = "done"
    /\ op = "idle"
    /\ op' = "disconnect"
    /\ call' = NoCall
    /\ DisconnectAt(1, <<>>, [k \in 1..Len(accounts) |-> Unissued("disconnect")])
    /\ DisconnectFrame

\* line 276: disconnect() of the entry resolves
DisconnectResolve ==
    /\ op = "disconnect"
    /\ cursor > 0
    /\ DisconnectAt(cursor + 1, reply.logged, [returned EXCEPT ![cursor] = Fulfil(@, <<>>)])
    /\ UNCHANGED <<op, call>>
    /\ DisconnectFrame

\* lines 277-279: disconnect() of the entry rejects, the error is logged with the id
DisconnectReject ==
    /\ op = "disconnect"
    /\ cursor > 0
    /\ \E err \in AdapterErrors :
          DisconnectAt(ContinueAfterError(cursor), Append(reply.logged, accounts[cursor].id),
                       [returned EXCEPT ![cursor] = Reject(@, err)])
    /\ UNCHANGED <<op, call>>
    /\ DisconnectFrame

\* the caller has the answer; the manager is ready for the next call
CallDeliver ==
    /\ op \in SingleMethods \cup {"getAllFolders", "disconnect", "getAccounts"}
    /\ reply.state = "responded"
    /\ op' = "idle"
    /\ call' = NoCall
    /\ invoked' = [i \in DOMAIN invoked |-> <<>>]
    /\ cursor' = 0
    /\ reply' = NoReply
    /\ returned' = <<>>
    /\ UNCHANGED <<task, opResult>>
    /\ UNCHANGED loadVars
    /\ UNCHANGED outerVars

OpsNext ==
    \/ \E kind \in FanOps : FanStart(kind)
    \/ \E k \in 1..Cardinality(Fleet) : \E emails \in Listings : AdapterResolve(k, emails)
    \/ \E k \in 1..Cardinality(Fleet) : AdapterReject(k)
    \/ FanFinish
    \/ FanDeliver
    \/ \E tool \in SingleTools : \E accountId \in AccountArgs : ToolCall(tool, accountId)
    \/ SingleResolve
    \/ \E err \in AdapterErrors : SingleReject(err)
    \/ FoldersStart
    \/ \E folders \in FolderLists : FoldersResolve(folders)
    \/ FoldersReject
    \/ ListAccounts
    \/ DisconnectStart
    \/ DisconnectResolve
    \/ DisconnectReject
    \/ CallDeliver

OpsSpec == OpsInit /\ [][OpsNext]_vars

-----------------------------------------------------------------------------
(* Startup -- index.ts 16-27, 275-277 *)

\* a server that is connected without waiting for the load
ServerConnectEarly ==
    /\ transport = "closed"
    /\ transport' = "connected"
    /\ UNCHANGED loadVars
    /\ UNCHANGED opVars
    /\ UNCHANGED <<adapterVars, imap>>

\* lines 21, 24-27, 275-276: the module awaits loadAccounts, then makes the
\* server and connects it; when the load rejects, the await throws and the
\* module goes no further
ServerConnect ==
    /\ loadPc = "done"
    /\ transport = "closed"
    /\ transport' = "connected"
    /\ UNCHANGED loadVars
    /\ UNCHANGED opVars
    /\ UNCHANGED <<adapterVars, imap>>

\* the load, then the server with the tool that reads the registry
StartNext ==
    \/ Next
    \/ ServerConnect
    \/ ListAccounts
    \/ CallDeliver

StartSpec == Init /\ [][StartNext]_vars

-----------------------------------------------------------------------------
(* The adapters -- gmail.ts, outlook.ts, part_001 (IMAPProvider), part_003 *)

\* the three provider classes and "plain": a provider class that overrides
\* neither deleteEmail nor moveEmail of EmailProvider (part_003 17-24).
\* createProvider builds no such class; it stands for the default of the contract
AdapterKinds == KnownProviders \cup {"plain"}

MessageIds == {"1", "2"}

\* a message of the mailbox behind the adapter: not there, unread, read
Flags == {"absent", "unread", "read"}

\* the mailboxes a call can find: message 1 is there, message 2 is not
Mailboxes == {b \in [MessageIds -> Flags] : b["1"] # "absent" /\ b["2"] = "absent"}

\* the methods that take a message id
MessageMethods == {"getMessage", "markAsRead", "markAsUnread", "deleteEmail"}

AdapterMethods == MessageMethods \cup {"sendEmail", "getFolders"}

\* gmail.ts 35, outlook.ts 82, part_001 63: what the api getter throws
NotConnected(kind) ==
    ErrorOf(<<"Not connected to ",
              CASE kind = "gmail" -> "Gmail" [] kind = "outlook" -> "Outlook" [] OTHER -> "IMAP">>)

\* part_001 197
SmtpNotConfigured == ErrorOf(<<"SMTP not configured">>)

\* part_003 19
DeleteNotSupported == ErrorOf(<<"Delete not supported by this provider">>)

\* the error of a request the backend or its client library turns down
BackendError == ErrorOf(<<"backend">>)

\* how a call on the adapter settles and the mailbox it leaves; "never" is a
\* promise that nothing will settle
Done(value, box) ==
    [state |-> "fulfilled", value |-> value, error |-> ErrorOf(<<>>), box |-> box]

Failed(err, box) == [state |-> "rejected", value |-> <<>>, error |-> err, box |-> box]

Silent(box) == [state |-> "never", value |-> <<>>, error |-> ErrorOf(<<>>), box |-> box]

\* gmail.ts 104: labelIds includes UNREAD; outlook.ts 119: !msg.isRead;
\* part_001 124: true
isUnread(kind, flag) == IF kind = "imap" THEN TRUE ELSE flag = "unread"

\* gmail.ts 93-107, outlook.ts 108-122, part_001 113-127: the Email of a message
mapMessage(kind, id, flag) == [id |-> id, date |-> 1, isUnread |-> isUnread(kind, flag)]

\* a request for a message the mailbox does not hold. The web APIs answer it
\* with an error (gmail.ts 65, outlook.ts 125-128 await it). An IMAP fetch of
\* an unknown uid emits no 'message', so that the promise of part_001 85-111 is
\* never resolved, unless it emits 'error'; a flag change on an unknown uid
\* changes nothing and the server accepts or refuses it
MissingMessage(kind, method, box) ==
    IF kind # "imap" THEN {Failed(BackendError, box)}
    ELSE IF method = "getMessage" THEN {Silent(box), Failed(BackendError, box)}
    ELSE {Done(<<>>, box), Failed(BackendError, box)}

\* the request of the method on an open session, answered from the mailbox
Backend(kind, method, id, box) ==
    CASE method = "getFolders"   -> {Done(<<"INBOX">>, box)}
      [] method = "sendEmail"    -> {Done(<<IF kind = "outlook" THEN "sent" ELSE "x1">>, box)}
      [] box[id] = "absent"      -> MissingMessage(kind, method, box)
      [] method = "getMessage"   -> {Done(<<mapMessage(kind, id, box[id])>>, box)}
      [] method = "markAsRead"   -> {Done(<<>>, [box EXCEPT ![id] = "read"])}
      [] method = "markAsUnread" -> {Done(<<>>, [box EXCEPT ![id] = "unread"])}
      [] OTHER                   -> {Done(<<>>, [box EXCEPT ![id] = "absent"])}

\* a default that does nothing and reports success
deleteEmailIgnored(box) == {Done(<<>>, box)}

\* part_003 18-20: EmailProvider.deleteEmail, the default of the contract
deleteEmail(box) == {Failed(DeleteNotSupported, box)}

\* a method of the adapter: the guard of the session (gmail.ts 34-37,
\* outlook.ts 81-84, part_001 62-65 and 197), then the request. What the IMAP
\* library does with a request on a connection that never became ready is not
\* in this source: it refuses it or never answers it
AdapterOutcomes(a, method, id) ==
    IF a.kind = "plain" THEN deleteEmail(a.box)
    ELSE IF a.kind = "imap" /\ method = "sendEmail"
    THEN IF a.transporter THEN Backend(a.kind, method, id, a.box)
         ELSE {Failed(SmtpNotConfigured, a.box)}
    ELSE IF a.handle = "null" THEN {Failed(NotConnected(a.kind), a.box)}
    ELSE IF a.handle = "unready" THEN {Failed(BackendError, a.box), Silent(a.box)}
    ELSE Backend(a.kind, method, id, a.box)

\* connect(): gmail.ts 22-28 and outlook.ts 28-44 assign the client last, when
\* nothing can fail any more; part_001 23-52 assigns this.imap first (line 25),
\* awaits 'ready' or 'error' (34-38) and sets the transporter after 'ready'
connect(a, ok) ==
    IF ok
    THEN [a EXCEPT !.handle = "ready", !.transporter = (a.kind = "imap"),
                   !.era = IF a.era = "new" THEN "open" ELSE "reopened"]
    ELSE IF a.kind = "imap" THEN [a EXCEPT !.handle = "unready"]
    ELSE a

\* disconnect(): gmail.ts 30-32, outlook.ts 77-79, part_001 54-60
disconnect(a) == [a EXCEPT !.handle = "null", !.transporter = FALSE, !.era = "closed"]

\* the tool that ends in the method
ToolOf(method) == CHOOSE t \in ManagerTools : ToolMethod(t) = method

\* index.ts 218-272: what the caller of the tool of the method is given when
\* the adapter is the one of the account asked for
Answer(method, out) ==
    IF method \notin {ToolMethod(t) : t \in ManagerTools} \/ out.state = "never"
    THEN NoReply
    ELSE IF out.state = "fulfilled"
    THEN ToolResult(ToolOf(method), accounts[1].id, accounts[1], out.value)
    ELSE HandlerCatch("rejected", out.error)

\* the call as the journal keeps it: the session and the mailbox it found, how
\* it settled, the mailbox and the session fields it left
Entry(method, id, out, before, after) ==
    [method |-> method, id |-> id, state |-> out.state, value |-> out.value,
     error |-> out.error, era |-> before.era, pre |-> before.box, box |-> out.box,
     handle |-> after.handle, transporter |-> after.transporter]

Remember(e) == journal' = [prev |-> journal.last, last |-> e]

AdapterFrame ==
    /\ UNCHANGED loadVars
    /\ UNCHANGED <<transport, imap>>
    /\ UNCHANGED <<op, task, returned, opResult, call, invoked, cursor>>

\* the registry entry of the adapter
AdapterRecord(kind) ==
    MkRecord("a", "Work", kind, FALSE,
             IF kind \in {"imap", "outlook"} THEN Str(Placeholder(<<"A">>)) ELSE Undefined,
             Str(<<"p">>))

\* an adapter just constructed, or one that a load has connected and
\* registered, with any mailbox behind it
AdapterInit ==
    /\ content \in {<<AdapterRecord(kind)>> : kind \in AdapterKinds}
    /\ env = FleetEnv
    /\ loadPc = "done"
    /\ loadError = NoError
    /\ config = Resolved(env, content)
    /\ idx = 2
    /\ accounts = <<[id |-> config[1].id, config |-> config[1], provider |-> 1]>>
    /\ defaultAccountId = FallbackDefault(Null, accounts)
    /\ defaultWrites = FallbackWrites(<<>>, Null, accounts, 2)
    /\ log = <<>>
    /\ outcome = <<"connected">>
    /\ connectCalls = <<1>>
    /\ created = <<[made |-> TRUE, config |-> config[1].config]>>
    /\ OpsIdle
    /\ journal = NoJournal
    /\ transport = "connected"
    /\ imap = NoImap
    /\ \E box \in Mailboxes : \E fresh \in {TRUE, FALSE} :
          /\ fresh => content[1].provider # "plain"
          /\ adapter = IF fresh
                       THEN [kind |-> content[1].provider, handle |-> "null",
                             transporter |-> FALSE, era |-> "new", box |-> box]
                       ELSE [kind |-> content[1].provider, handle |-> "ready",
                             transporter |-> content[1].provider = "imap",
                             era |-> "open", box |-> box]

\* a method is called on the adapter and settles, or never will
AdapterCall(method, id) ==
    /\ adapter.kind # "none"
    /\ adapter.kind = "plain" => method = "deleteEmail"
    /\ method \notin MessageMethods => id = "1"
    /\ \E out \in AdapterOutcomes(adapter, method, id) :
          /\ adapter' = [adapter EXCEPT !.box = out.box]
          /\ Remember(Entry(method, IF method \in MessageMethods THEN id ELSE "",
                            out, adapter, adapter))
          /\ reply' = Answer(method, out)
    /\ AdapterFrame

\* connect() is called on an adapter without an open session and settles
AdapterConnect(ok) ==
    /\ adapter.kind \in KnownProviders
    /\ adapter.handle # "ready"
    /\ adapter' = connect(adapter, ok)
    /\ Remember(Entry("connect", "",
                      IF ok THEN Done(<<>>, adapter.box) ELSE Failed(BackendError, adapter.box),
                      adapter, adapter'))
    /\ reply' = NoReply
    /\ AdapterFrame

\* disconnect() is called on the adapter, whatever its session
AdapterDisconnect ==
    /\ adapter.kind \in KnownProviders
    /\ adapter' = disconnect(adapter)
    /\ Remember(Entry("disconnect", "", Done(<<>>, adapter.box), adapter, adapter'))
    /\ reply' = NoReply
    /\ AdapterFrame

AdapterNext ==
    \/ \E method \in AdapterMethods : \E id \in MessageIds : AdapterCall(method, id)
    \/ \E ok \in BOOLEAN : AdapterConnect(ok)
    \/ AdapterDisconnect

AdapterSpec == AdapterInit /\ [][AdapterNext]_vars

-----------------------------------------------------------------------------
(* IMAPProvider: operations on its one connection -- part_001 67-194, 233-246 *)

\* the highest UID a mailbox of the model holds
MaxUid == 2

Uids == 1..MaxUid

Folders == {"INBOX", "Sent"}

\* the two operations that may be in progress together
Sides == {"one", "other"}

Criteria == {"ALL", "UNSEEN"}

NoMessage == [present |-> FALSE, seen |-> FALSE, deleted |-> FALSE]

Message(seen) == [present |-> TRUE, seen |-> seen, deleted |-> FALSE]

\* what the server holds: any INBOX, and a Sent folder of read messages
ImapBoxes ==
    {[f \in Folders |-> IF f = "INBOX" THEN inbox ELSE [u \in Uids |-> Message(TRUE)]] :
        inbox \in [Uids -> {NoMessage, Message(FALSE), Message(TRUE)}]}

\* the connection has no mailbox selected
NoBox == [name |-> "", readOnly |-> TRUE]

ReadMethods == {"fetchUnread", "search", "getMessage"}

FlagMethods == {"markAsRead", "markAsUnread", "deleteEmail"}

ImapMethods == ReadMethods \cup FlagMethods

\* lines 130, 143, 172, 177, 187, 234: the mailbox and mode the operation opens
Opens(method, folder) ==
    [name |-> IF method = "search" THEN folder ELSE "INBOX",
     readOnly |-> method \in ReadMethods]

\* lines 131, 145-158: the criteria of the operation's search
CriteriaOf(method, criteria) == IF method = "fetchUnread" THEN "UNSEEN" ELSE criteria

NoOp == [method |-> "none", opened |-> NoBox, criteria |-> "ALL", maxResults |-> 0,
         id |-> 0, pc |-> "none", ran |-> <<>>, found |-> <<>>, uids |-> <<>>,
         emails |-> <<>>, state |-> "none"]

\* the members of a set of UIDs in ascending order
RECURSIVE Ascending(_)
Ascending(S) ==
    IF S = {} THEN <<>>
    ELSE LET least == CHOOSE u \in S : \A v \in S : u <= v
         IN  <<least>> \o Ascending(S \ {least})

\* lines 76-83: the UIDs of the selected mailbox that match, as the server
\* lists them
searchMessages(box, criteria) ==
    Ascending({u \in Uids : /\ box[u].present
                            /\ criteria = "UNSEEN" => ~box[u].seen})

\* Array.prototype.slice(start): a negative start counts from the end, and the
\* start -0 is the start 0
slice(s, start) ==
    LET n == Len(s)
        from == IF start < 0
                THEN (IF n + start > 0 THEN n + start ELSE 0)
                ELSE (IF start > n THEN n ELSE start)
    IN  SubSeq(s, from + 1, n)

\* Array.prototype.reverse
reverse(s) == [k \in 1..Len(s) |-> s[Len(s) + 1 - k]]

\* lines 132, 162
limitedUids(uids, maxResults) == reverse(slice(uids, 0 - maxResults))

\* lines 113-127: the message as the adapter returns it
ImapEmail(uid, name) == [id |-> uid, folder |-> name, isUnread |-> TRUE]

\* addFlags / delFlags on a message of the selected mailbox (lines 179, 189, 236)
Store(box, uid, method) ==
    IF ~box[uid].present THEN box
    ELSE [box EXCEPT ![uid] =
            CASE method = "markAsRead"   -> [@ EXCEPT !.seen = TRUE]
              [] method = "markAsUnread" -> [@ EXCEPT !.seen = FALSE]
              [] OTHER                   -> [@ EXCEPT !.deleted = TRUE]]

\* expunge (line 239): the messages flagged \Deleted leave the selected mailbox
Expunge(box) == [u \in Uids |-> IF box[u].deleted THEN NoMessage ELSE box[u]]

ImapFrame ==
    /\ UNCHANGED loadVars
    /\ UNCHANGED opVars
    /\ UNCHANGED <<adapterVars, transport>>

\* a registered IMAP account with its connection open and no mailbox selected
ImapInit ==
    /\ content = <<AdapterRecord("imap")>>
    /\ env = FleetEnv
    /\ loadPc = "done"
    /\ loadError = NoError
    /\ config = Resolved(env, content)
    /\ idx = 2
    /\ accounts = <<[id |-> config[1].id, config |-> config[1], provider |-> 1]>>
    /\ defaultAccountId = FallbackDefault(Null, accounts)
    /\ defaultWrites = FallbackWrites(<<>>, Null, accounts, 2)
    /\ log = <<>>
    /\ outcome = <<"connected">>
    /\ connectCalls = <<1>>
    /\ created = <<[made |-> TRUE, config |-> config[1].config]>>
    /\ OpsIdle
    /\ adapter = Unbuilt
    /\ journal = NoJournal
    /\ transport = "connected"
    /\ \E box \in ImapBoxes :
          imap = [selected |-> NoBox, box |-> box, ops |-> [s \in Sides |-> NoOp]]

\* the operation ends
Finish(o, state) == [o EXCEPT !.pc = "done", !.state = state]

\* a method of the adapter is called: it calls openBox (lines 130, 143, 172,
\* 177, 187, 234) and awaits it
ImapStart(side, method, folder, criteria, maxResults, id) ==
    /\ imap.ops[side].pc = "none"
    /\ method # "search" => (folder = "INBOX" /\ criteria = "ALL")
    /\ method \notin {"fetchUnread", "search"} => maxResults = 0
    /\ method \in {"fetchUnread", "search"} => id = 1
    /\ imap' = [imap EXCEPT !.ops[side] =
                  [NoOp EXCEPT !.method = method, !.opened = Opens(method, folder),
                               !.criteria = CriteriaOf(method, criteria),
                               !.maxResults = maxResults, !.id = id, !.pc = "select"]]
    /\ ImapFrame

\* lines 67-74: the server selects the mailbox the operation asked for; the
\* operation goes on to its next command
ImapSelect(side) ==
    LET o == imap.ops[side]
    IN  /\ o.pc = "select"
        /\ imap' = [imap EXCEPT
              !.selected = o.opened,
              !.ops[side] = [o EXCEPT
                  !.pc = CASE o.method \in {"fetchUnread", "search"} -> "search"
                           [] o.method = "getMessage" -> "fetch"
                           [] OTHER -> "store",
                  !.uids = IF o.method = "getMessage" THEN <<o.id>> ELSE <<>>]]
        /\ ImapFrame

\* lines 131-132, 160-162: the search runs on the mailbox that is selected now
ImapSearch(side) ==
    LET o == imap.ops[side]
        found == searchMessages(imap.box[imap.selected.name], o.criteria)
        limited == limitedUids(found, o.maxResults)
        next == [o EXCEPT !.ran = Append(@, imap.selected), !.found = found,
                          !.uids = limited]
    IN  /\ o.pc = "search"
        /\ imap' = [imap EXCEPT !.ops[side] =
                      IF limited = <<>> THEN Finish(next, "resolved")
                      ELSE [next EXCEPT !.pc = "fetch"]]
        /\ ImapFrame

\* lines 85-111, 134-137, 164-167, 173: the next message is fetched from the
\* mailbox that is selected now; a fetch that brings no message never settles
ImapFetch(side) ==
    LET o == imap.ops[side]
        uid == Head(o.uids)
        next == [o EXCEPT !.ran = Append(@, imap.selected), !.uids = Tail(@)]
    IN  /\ o.pc = "fetch"
        /\ imap' = [imap EXCEPT !.ops[side] =
                      IF ~imap.box[imap.selected.name][uid].present
                      THEN Finish(next, "never")
                      ELSE LET got == [next EXCEPT !.emails =
                                          Append(@, ImapEmail(uid, imap.selected.name))]
                           IN  IF got.uids = <<>> THEN Finish(got, "resolved") ELSE got]
        /\ ImapFrame

\* lines 178-183, 188-193, 235-237: the flag is changed in the mailbox that is
\* selected now; a mailbox selected read-only refuses
ImapStore(side) ==
    LET o == imap.ops[side]
        next == [o EXCEPT !.ran = Append(@, imap.selected)]
    IN  /\ o.pc = "store"
        /\ imap' = IF imap.selected.readOnly
                   THEN [imap EXCEPT !.ops[side] = Finish(next, "rejected")]
                   ELSE [imap EXCEPT
                           !.box[imap.selected.name] = Store(@, o.id, o.method),
                           !.ops[side] = IF o.method = "deleteEmail"
                                         THEN [next EXCEPT !.pc = "expunge"]
                                         ELSE Finish(next, "resolved")]
        /\ ImapFrame

\* lines 238-242: the mailbox that is selected now is expunged
ImapExpunge(side) ==
    LET o == imap.ops[side]
        next == [o EXCEPT !.ran = Append(@, imap.selected)]
    IN  /\ o.pc = "expunge"
        /\ imap' = IF imap.selected.readOnly
                   THEN [imap EXCEPT !.ops[side] = Finish(next, "rejected")]
                   ELSE [imap EXCEPT
                           !.box[imap.selected.name] = Expunge(@),
                           !.ops[side] = Finish(next, "resolved")]
        /\ ImapFrame

ImapNext ==
    \/ \E side \in Sides, method \in ImapMethods, folder \in Folders,
          criteria \in Criteria, maxResults \in 0..MaxUid, id \in Uids :
            ImapStart(side, method, folder, criteria, maxResults, id)
    \/ \E side \in Sides : ImapSelect(side)
    \/ \E side \in Sides : ImapSearch(side)
    \/ \E side \in Sides : ImapFetch(side)
    \/ \E side \in Sides : ImapStore(side)
    \/ \E side \in Sides : ImapExpunge(side)

ImapSpec == ImapInit /\ [][ImapNext]_vars

-----------------------------------------------------------------------------
(* Vocabulary of the load properties *)

Records == 1..Len(content)

Settled(i) == outcome[i] \in {"skipped", "connected", "failed"}

PastValidation == loadPc \in {"loop", "connecting", "done"}

\* the text is exactly one ${VAR}
IsPlaceholderText(s) ==
    /\ Len(s) >= 4
    /\ s[1] = "$" /\ s[2] = "{" /\ s[Len(s)] = "}"
    /\ \A k \in 3..(Len(s) - 1) : s[k] \in WordChars

PlaceholderName(s) == SubSeq(s, 3, Len(s) - 1)

RECURSIVE PlaceholdersOnly(_)
\* the text is a run of ${VAR}s and nothing else
PlaceholdersOnly(s) ==
    \/ s = <<>>
    \/ \E n \in 4..Len(s) :
          /\ IsPlaceholderText(SubSeq(s, 1, n))
          /\ PlaceholdersOnly(SubSeq(s, n + 1, Len(s)))

\* a value that carries text of the manifest itself
LiteralSecret(v) == v.t = "number" \/ (v.t = "string" /\ ~PlaceholdersOnly(v.s))

SensitiveOf(i) == {SENSITIVE_FIELDS(content[i].provider)[k] :
                     k \in 1..Len(SENSITIVE_FIELDS(content[i].provider))}

\* what the environment holds for a name, as the manifest author expects it
EnvText(name) ==
    IF name \in VarNames /\ env[name].set THEN env[name].v ELSE <<>>

\* C4: a literal (non-placeholder) value in a sensitive field of any account makes
\* loadAccounts fail as a whole: connect() is called on no adapter, the registry
\* stays empty and the load does not complete.
C4_SecretRejection ==
    (\E i \in Records : \E f \in SensitiveOf(i) : LiteralSecret(content[i].config[f]))
        => /\ \A j \in Records : connectCalls[j] = 0
           /\ accounts = <<>>
           /\ loadPc # "done"

\* C5: the load goes past the raw validation only when every sensitive field that
\* holds text holds ${VAR} placeholders and nothing else, and the text an adapter
\* is constructed with for a sensitive field is environment text alone.
C5_FailClosed ==
    /\ PastValidation =>
          \A i \in Records : \A f \in SensitiveOf(i) :
              content[i].config[f].t = "string" => PlaceholdersOnly(content[i].config[f].s)
    /\ \A i \in Records : \A f \in SensitiveOf(i) :
          (created[i].made /\ created[i].config[f].t = "string") =>
              \A k \in 1..Len(created[i].config[f].s) : created[i].config[f].s[k] \in EnvChars

\* record i has a sensitive field that is a placeholder of an unset or empty variable
UnresolvedField(i, f) ==
    /\ content[i].config[f].t = "string"
    /\ IsPlaceholderText(content[i].config[f].s)
    /\ EnvText(PlaceholderName(content[i].config[f].s)) = <<>>

\* C6 as claimed: once a record with an unresolved secret has been handled, the load
\* has failed with an error naming the account and the field.
C6_UnresolvedIsFatal ==
    \A i \in Records : \A f \in SensitiveOf(i) :
        (UnresolvedField(i, f) /\ PastValidation /\ idx > i)
            => /\ loadPc = "threw"
               /\ loadError = [kind |-> "empty-secret", account |-> content[i].id, field |-> f]

\* C6 as amended: the record with the unresolved secret is skipped with a logged
\* error naming the account and the field, before an adapter is made or connect()
\* is called for it, and the load goes on with the other records.
C6_UnresolvedSkipsAccount ==
    \A i \in Records : \A f \in SensitiveOf(i) :
        (UnresolvedField(i, f) /\ PastValidation /\ idx > i)
            => /\ outcome[i] = "skipped"
               /\ connectCalls[i] = 0
               /\ ~created[i].made
               /\ \A k \in 1..Len(accounts) : accounts[k].provider # i
               /\ \E k \in 1..Len(log) :
                     log[k].error = [kind |-> "empty-secret", account |-> content[i].id,
                                     field |-> f]
               /\ loadError = NoError

\* C6 witness: a load that skipped a record with an unresolved secret, connected
\* a later record and completed.
C6_Witness ==
    /\ loadPc = "done"
    /\ \E i, j \in Records :
          /\ \E f \in SensitiveOf(i) : UnresolvedField(i, f)
          /\ outcome[i] = "skipped"
          /\ i < j
          /\ outcome[j] = "connected"

HasDollar(s) == \E k \in 1..Len(s) : s[k] = "$"

\* C7: every ${VAR} of the text is replaced by the environment value of VAR, by
\* the empty string when VAR is unset or empty; text without a placeholder is
\* kept; an unset placeholder in a field that is not sensitive does not keep the
\* record from being connected and does not fail the load.
C7_PlaceholderResolution ==
    PastValidation =>
        \A i \in Records :
            /\ \A f \in DOMAIN content[i].config :
                  LET raw == content[i].config[f]
                      got == config[i].config[f]
                  IN  raw.t = "string" =>
                        /\ got.t = "string"
                        /\ ~HasDollar(raw.s) => got.s = raw.s
                        /\ \A a \in 1..Len(raw.s) : \A b \in a..Len(raw.s) :
                              LET pre == SubSeq(raw.s, 1, a - 1)
                                  mid == SubSeq(raw.s, a, b)
                                  post == SubSeq(raw.s, b + 1, Len(raw.s))
                              IN  (/\ IsPlaceholderText(mid)
                                   /\ ~HasDollar(pre)
                                   /\ (~HasDollar(post) \/ IsPlaceholderText(post)))
                                  => got.s = pre \o EnvText(PlaceholderName(mid))
                                               \o (IF HasDollar(post)
                                                   THEN EnvText(PlaceholderName(post))
                                                   ELSE post)
            /\ (/\ content[i].provider = "gmail"
                /\ HasDollar(content[i].config.user.s)
                /\ (idx > i \/ (idx = i /\ loadPc = "connecting")))
               => /\ connectCalls[i] = 1
                  /\ outcome[i] # "skipped"
                  /\ loadError = NoError

\* C7 witness: a completed load in which ${B}, unset, became "" in a field
\* that is not sensitive of a connected account and ${A} became "s".
C7_Witness ==
    /\ loadPc = "done"
    /\ \E i, j \in Records :
          /\ content[i].config.user = Str(Placeholder(<<"B">>))
          /\ ~env[<<"B">>].set
          /\ config[i].config.user = Str(<<>>)
          /\ outcome[i] = "connected"
          /\ content[j].config.password = Str(Placeholder(<<"A">>))
          /\ config[j].config.password = Str(<<"s">>)
          /\ outcome[j] = "connected"

\* C8: a failing adapter construction or connect() never makes the load throw;
\* every record gets at most one connect(); the registry holds exactly the
\* accounts whose connect() succeeded, at every moment and when the load is done,
\* also when none connected.
C8_ConnectFailureIsolation ==
    /\ \A i \in Records : connectCalls[i] <= 1
    /\ loadPc = "threw" => \A i \in Records : outcome[i] = "unconnected"
    /\ Keys(accounts) = {content[i].id : i \in {j \in Records : outcome[j] = "connected"}}
    /\ \A k \in 1..Len(accounts) : outcome[accounts[k].provider] = "connected"
    /\ \A i \in Records : outcome[i] \in {"failed", "skipped"} =>
          \A k \in 1..Len(accounts) : accounts[k].provider # i
    /\ loadPc = "done" => \A i \in Records : Settled(i)

\* C8 witness: a completed load whose first connect() failed and whose second
\* succeeded; the registry holds the second account alone.
C8_Witness ==
    /\ loadPc = "done"
    /\ \E i, j \in Records :
          /\ i < j
          /\ outcome[i] = "failed"
          /\ outcome[j] = "connected"
          /\ Keys(accounts) = {content[j].id}

\* C9 as claimed: while the connect() of one record is pending, the load can still
\* take the step that issues the connect() of a later record.
C9_ConcurrentConnect ==
    (loadPc = "connecting" /\ idx < Len(config)) => ENABLED LoadStep

\* C9 as amended: connect() calls are issued one record at a time in manifest
\* order, each only after every earlier record has settled; a failed or skipped
\* record does not stop the loop, but while one connect() is pending no later
\* one is issued.
C9_SequentialConnect ==
    /\ \A j \in Records : outcome[j] # "unconnected" => \A i \in 1..(j - 1) : Settled(i)
    /\ loadPc = "connecting" =>
          /\ outcome[idx] = "connecting"
          /\ \A j \in Records : j > idx => connectCalls[j] = 0
          /\ ~ENABLED LoadStep
    /\ \A i \in Records : outcome[i] \in {"failed", "skipped"} =>
          /\ loadPc \in {"loop", "connecting", "done"}
          /\ idx > i
          /\ (i < Len(config) /\ loadPc = "loop") => ENABLED LoadStep

\* C9 witness: the connect() of the second record is pending after the first
\* record failed.
C9_Witness ==
    /\ loadPc = "connecting"
    /\ idx = 2
    /\ outcome[1] = "failed"
    /\ outcome[2] = "connecting"

Marked == {i \in Records : content[i].default}

\* C10 as claimed: after the load, the one record marked default is the default.
C10_DefaultHonored ==
    (loadPc = "done" /\ Cardinality(Marked) = 1)
        => \A i \in Marked : defaultAccountId = content[i].id

\* C10 as amended: after the load, the one record marked default is the default
\* when it connected and its id is not the empty string.
C10_ConnectedDefaultHonored ==
    (loadPc = "done" /\ Cardinality(Marked) = 1)
        => \A i \in Marked :
              (outcome[i] = "connected" /\ content[i].id # "")
                  => defaultAccountId = content[i].id

\* C10 witness: two accounts connected, the second is the one marked default
\* and is the default.
C10_Witness ==
    /\ loadPc = "done"
    /\ Marked = {2}
    /\ outcome[1] = "connected"
    /\ outcome[2] = "connected"
    /\ content[2].id # ""
    /\ content[1].id # content[2].id
    /\ defaultAccountId = content[2].id

ConnectedMarked == {i \in Marked : outcome[i] = "connected"}

\* the assignments of line 68 among the writes of the default
MarkWritesOf(writes) == SelectSeq(writes, LAMBDA w : w.line = 68)

\* C11 as claimed: within one load the default account is written at most once,
\* only when every connection attempt has settled, and exactly once by the end of
\* a load that connected an account.
C11_DefaultWrittenOnce ==
    /\ Len(defaultWrites) <= 1
    /\ defaultWrites # <<>> => (loadPc = "done" /\ \A i \in Records : Settled(i))
    /\ (loadPc = "done" /\ accounts # <<>>) => Len(defaultWrites) = 1

\* C11 as amended: the default is written once for every record marked default
\* whose connect() succeeded, in manifest order and when that record is reached
\* by the loop, each write replacing the one before; the fallback to the first
\* registry entry is written at most once, as the last write, after every
\* attempt has settled and only when the default is then unset or empty; the
\* default is the value written last.
C11_DefaultWrittenPerMarked ==
    /\ LET marks == MarkWritesOf(defaultWrites)
       IN  /\ Len(marks) = Cardinality(ConnectedMarked)
           /\ \A k \in 1..Len(marks) :
                 /\ marks[k].at \in ConnectedMarked
                 /\ marks[k].value = content[marks[k].at].id
                 /\ k < Len(marks) => marks[k].at < marks[k + 1].at
    /\ \A k \in 1..Len(defaultWrites) :
          defaultWrites[k].line = 76 =>
              /\ k = Len(defaultWrites)
              /\ loadPc = "done"
              /\ \A i \in Records : Settled(i)
              /\ defaultWrites[k].value = accounts[1].id
              /\ k > 1 => defaultWrites[k - 1].value = ""
    /\ defaultAccountId = IF defaultWrites = <<>> THEN Null
                          ELSE defaultWrites[Len(defaultWrites)].value

\* C11 witness: two records marked default connected one after the other; the
\* default was written for each and is the id of the second.
C11_Witness ==
    /\ loadPc = "done"
    /\ ConnectedMarked = {1, 2}
    /\ content[1].id # content[2].id
    /\ content[2].id # ""
    /\ Len(defaultWrites) = 2
    /\ defaultWrites[1].value = content[1].id
    /\ defaultAccountId = content[2].id

Connected == {i \in Records : outcome[i] = "connected"}

\* C12: when no record is marked default and an account connected, the default
\* after the load is the id of the first record, in manifest order, whose
\* connect() succeeded, an id the registry holds; it is a function of the
\* manifest and the connect outcomes alone.
C12_DeterministicDefault ==
    (loadPc = "done" /\ Marked = {} /\ Connected # {})
        => /\ defaultAccountId = content[CHOOSE i \in Connected : \A j \in Connected : i <= j].id
           /\ defaultAccountId \in Keys(accounts)

\* C12 witness: no record is marked, the first failed to connect, the second
\* connected and is the default.
C12_Witness ==
    /\ loadPc = "done"
    /\ Marked = {}
    /\ Len(content) = 2
    /\ outcome[1] = "failed"
    /\ outcome[2] = "connected"
    /\ content[1].id # content[2].id
    /\ defaultAccountId = content[2].id

\* C13: the registry never holds two entries under the same id.
C13_RegistryUniqueness ==
    \A k, l \in 1..Len(accounts) : accounts[k].id = accounts[l].id => k = l

\* C13 witness: two records with the same id both connected; the registry holds
\* one entry under that id, the adapter of the second record.
C13_Witness ==
    /\ loadPc = "done"
    /\ Len(content) = 2
    /\ content[1].id = content[2].id
    /\ outcome[1] = "connected"
    /\ outcome[2] = "connected"
    /\ Len(accounts) = 1
    /\ accounts[1].provider = 2

-----------------------------------------------------------------------------
(* Vocabulary of the fan-out properties *)

Returned == opResult.state = "returned"

Count(list, x) == Cardinality({k \in 1..Len(list) : list[k] = x})

Untagged(m) == [id |-> m.id, date |-> m.date]

\* the messages of the result that carry the id of registry entry k, untagged
Contribution(k) ==
    LET mine == {j \in 1..Len(opResult.value) : opResult.value[j].accountId = accounts[k].id}
    IN  [e \in Emails |->
            Cardinality({j \in mine : Untagged(opResult.value[j]) = e})]

\* C1: fetchAllUnread and searchAll never throw; what they return holds, for every
\* account whose adapter call resolved, exactly the messages that call returned,
\* nothing for an account whose call rejected, and nothing else.
C1_FanOutIsolation ==
    /\ opResult.state # "threw"
    /\ Returned =>
          /\ \A k \in 1..Len(accounts) : \A e \in Emails :
                Contribution(k)[e] = IF returned[k].state = "fulfilled"
                                     THEN Count(returned[k].emails, e)
                                     ELSE 0
          /\ \A j \in 1..Len(opResult.value) : opResult.value[j].accountId \in Keys(accounts)

\* C1 witness: three accounts, the call of the second rejected, the other two
\* returned messages, and the operation returned them.
C1_Witness ==
    /\ Returned
    /\ Len(accounts) = 3
    /\ returned[2].state = "rejected"
    /\ Len(returned[1].emails) = 2
    /\ Len(returned[3].emails) = 1
    /\ Len(opResult.value) = 3

\* the results of the accounts whose call resolved, tagged, in registry order
ExpectedConcat ==
    Flatten([k \in 1..Len(accounts) |->
                IF returned[k].state = "fulfilled"
                THEN [j \in 1..Len(returned[k].emails) |->
                        [id |-> returned[k].emails[j].id,
                         date |-> returned[k].emails[j].date,
                         accountId |-> accounts[k].config.id,
                         accountName |-> accounts[k].config.name,
                         providerType |-> accounts[k].config.provider]]
                ELSE <<>>])

IsPermutation(s, t) ==
    /\ Len(s) = Len(t)
    /\ \A k \in 1..Len(s) : Count(s, s[k]) = Count(t, s[k])

\* C2: the returned list is a permutation of the concatenation of the results of
\* the accounts that did not fail, and no element has a timestamp below that of
\* the element after it, whatever order the adapters returned their messages in.
C2_MergeOrdering ==
    Returned =>
        /\ IsPermutation(opResult.value, ExpectedConcat)
        /\ \A k \in 1..(Len(opResult.value) - 1) :
              opResult.value[k].date >= opResult.value[k + 1].date

\* C2 witness: three accounts returned timestamps 1, 3 and (1, 2); the result
\* is ordered 3, 2, 1, 1.
C2_Witness ==
    /\ Returned
    /\ Len(accounts) = 3
    /\ returned[1].emails = <<[id |-> "m1", date |-> 1]>>
    /\ returned[2].emails = <<[id |-> "m1", date |-> 3]>>
    /\ returned[3].emails = <<[id |-> "m2", date |-> 1], [id |-> "m1", date |-> 2]>>
    /\ [k \in 1..4 |-> opResult.value[k].date] = <<3, 2, 1, 1>>
    /\ [k \in 1..4 |-> opResult.value[k].accountId] = <<"b", "c", "a", "c">>

\* C3: every message of the result carries the id, the display name and the
\* provider kind of an account whose adapter returned that very message, and
\* nothing but these three fields was added to it.
C3_Tagging ==
    Returned =>
        \A j \in 1..Len(opResult.value) :
            LET m == opResult.value[j]
            IN  /\ DOMAIN m = {"id", "date", "accountId", "accountName", "providerType"}
                /\ \E k \in 1..Len(accounts) :
                      /\ m.accountId = accounts[k].config.id
                      /\ m.accountName = accounts[k].config.name
                      /\ m.providerType = accounts[k].config.provider
                      /\ returned[k].state = "fulfilled"
                      /\ \E i \in 1..Len(returned[k].emails) :
                            returned[k].emails[i] = Untagged(m)

\* C3 witness: accounts b and c returned a message with the same id and the
\* result holds both, each with the fields of its own account.
C3_Witness ==
    /\ Returned
    /\ \E x, y \in 1..Len(opResult.value) :
          /\ opResult.value[x].id = opResult.value[y].id
          /\ opResult.value[x].accountId = "b"
          /\ opResult.value[x].providerType = "imap"
          /\ opResult.value[y].accountId = "c"
          /\ opResult.value[y].accountName = "Work"

-----------------------------------------------------------------------------
(* Vocabulary of the properties of single-account calls, folders and teardown *)

NothingInvoked == \A i \in DOMAIN invoked : invoked[i] = <<>>

\* C14: a single-account operation given an identity that the registry does not
\* hold fails with the account-not-found error and calls no adapter; one with
\* the identity left out fails with the no-default error whenever the registry
\* is empty, also after disconnect.
C14_ResolutionErrors ==
    op \in SingleMethods =>
        /\ (Truthy(call.accountId) /\ call.accountId \notin Keys(accounts)) =>
              /\ reply = HandlerCatch(ManagerFails(call.tool), AccountNotFound(call.accountId))
              /\ NothingInvoked
        /\ (call.accountId = Absent /\ accounts = <<>>) =>
              /\ reply = HandlerCatch(ManagerFails(call.tool), NoDefaultAccount)
              /\ NothingInvoked

\* the adapter of the registry entry at position k
AdapterOf(k) == accounts[k].provider

\* C15: a single-account tool called with a non-empty accountId X calls the
\* method of the tool, and nothing else, on the adapter registered under X, and
\* calls no method on any other adapter; this holds for get_email, mark_as_read,
\* mark_as_unread, delete_email, send_email and for fetch_unread_emails and
\* search_emails.
C15_SingleAccountScoping ==
    (op \in SingleMethods /\ Truthy(call.accountId)) =>
        \A i \in DOMAIN invoked :
            invoked[i] # <<>> =>
                /\ \E k \in 1..Len(accounts) :
                      accounts[k].id = call.accountId /\ AdapterOf(k) = i
                /\ invoked[i] = <<ToolMethod(call.tool)>>

\* C15 witness: delete_email for account c in a registry of three accounts whose
\* default is a; deleteEmail was called on the adapter of c alone.
C15_Witness ==
    /\ op = "deleteEmail"
    /\ call.accountId = "c"
    /\ Len(accounts) = 3
    /\ defaultAccountId = "a"
    /\ invoked[AdapterOf(3)] = <<"deleteEmail">>
    /\ invoked[AdapterOf(1)] = <<>>
    /\ invoked[AdapterOf(2)] = <<>>

Pending(k) == returned[k].state = "pending"

\* C16: fetchAllUnread and searchAll have not returned while the call of any
\* account is pending, whatever the other calls did: the promise they await
\* is pending as long as one call is; it is fulfilled, so that they return, as
\* soon as every call has resolved or rejected.
C16_WaitForAll ==
    op \in FanOps =>
        /\ opResult.state # "none" => \A k \in 1..Len(returned) : ~Pending(k)
        /\ (\E k \in 1..Len(returned) : Pending(k)) => PromiseAll(task).state = "pending"
        /\ (\A k \in 1..Len(returned) : ~Pending(k)) => PromiseAll(task).state = "fulfilled"

\* C16 witness: of three calls the first resolved with messages and the second
\* rejected; the third is pending and the operation has not returned.
C16_Witness ==
    /\ op \in FanOps
    /\ Len(returned) = 3
    /\ returned[1].state = "fulfilled"
    /\ returned[1].emails # <<>>
    /\ returned[2].state = "rejected"
    /\ Pending(3)
    /\ opResult.state = "none"
    /\ PromiseAll(task).state = "pending"

UnifiedOps == FanOps \cup {"getAllFolders"}

\* C17 as claimed: while a unified operation is in progress, the call of every
\* account of the registry has been issued.
C17_ConcurrentFanOut ==
    op \in UnifiedOps => \A k \in 1..Len(accounts) : invoked[AdapterOf(k)] # <<>>

\* C17 as amended: fetchAllUnread and searchAll have issued the call of every
\* account once they are in progress, also while every call is pending;
\* getAllFolders has issued the calls of the accounts up to the one it awaits
\* and of no later account.
C17_FanOutIssue ==
    /\ op \in FanOps =>
          \A k \in 1..Len(accounts) : invoked[AdapterOf(k)] = <<AdapterMethod(op)>>
    /\ (op = "getAllFolders" /\ cursor > 0) =>
          /\ Pending(cursor)
          /\ \A k \in 1..Len(accounts) :
                /\ k < cursor => returned[k].state \in {"fulfilled", "rejected"}
                /\ k <= cursor => invoked[AdapterOf(k)] = <<"getFolders">>
                /\ k > cursor => invoked[AdapterOf(k)] = <<>> /\ returned[k].state = "unissued"
    /\ (op = "getAllFolders" /\ cursor = 0) =>
          \A k \in 1..Len(accounts) : invoked[AdapterOf(k)] = <<"getFolders">>

\* C17 witness: getAllFolders over three accounts awaits getFolders of the
\* first account; no call has been issued for the second and the third.
C17_Witness ==
    /\ op = "getAllFolders"
    /\ Len(accounts) = 3
    /\ cursor = 1
    /\ Pending(1)
    /\ invoked[AdapterOf(2)] = <<>>
    /\ invoked[AdapterOf(3)] = <<>>

FoldersReturned == op = "getAllFolders" /\ reply.state = "responded"

\* C18 as claimed: getAllFolders does not throw and returns one group per
\* account of the registry, in registry order, with the id and the name of the
\* account and the folders its adapter returned, without folders for an account
\* whose call failed.
C18_OneGroupPerAccount ==
    FoldersReturned =>
        /\ reply.manager = "resolved"
        /\ ~reply.isError
        /\ Len(reply.value) = Len(accounts)
        /\ \A k \in 1..Len(accounts) :
              reply.value[k] = FolderGroup(accounts[k],
                                           IF returned[k].state = "fulfilled"
                                           THEN returned[k].value ELSE <<>>)

\* the groups of the accounts whose getFolders resolved, in registry order
ExpectedGroups ==
    Flatten([k \in 1..Len(accounts) |->
                IF returned[k].state = "fulfilled"
                THEN <<FolderGroup(accounts[k], returned[k].value)>>
                ELSE <<>>])

\* C18 as amended: getAllFolders does not throw and returns, in registry order,
\* one group for every account whose getFolders resolved, with the id and the
\* name of the account and the folders as the adapter returned them; an account
\* whose call failed has no group in the result and its name is logged.
C18_GroupPerSuccess ==
    FoldersReturned =>
        /\ reply.manager = "resolved"
        /\ ~reply.isError
        /\ reply.value = ExpectedGroups
        /\ reply.logged = Flatten([k \in 1..Len(accounts) |->
                                     IF returned[k].state = "rejected"
                                     THEN <<accounts[k].config.name>> ELSE <<>>])
        /\ \A k \in 1..Len(accounts) : returned[k].state \in {"fulfilled", "rejected"}

\* C18 witness: of three accounts the second failed; the result holds the
\* groups of a and c, the folders of c in the order its adapter gave.
C18_Witness ==
    /\ FoldersReturned
    /\ Len(accounts) = 3
    /\ returned[2].state = "rejected"
    /\ Len(reply.value) = 2
    /\ reply.value[1].accountId = "a"
    /\ reply.value[2] = [accountId |-> "c", accountName |-> "Work",
                          folders |-> <<"Sent", "INBOX">>]
    /\ reply.logged = <<"Home">>

\* C19: within one operation, unified or single-account, no adapter gets more
\* than one call, whether its call resolved or rejected.
C19_NoRetry ==
    /\ \A i \in DOMAIN invoked : Len(invoked[i]) <= 1
    /\ op \in SingleMethods =>
          Cardinality({i \in DOMAIN invoked : invoked[i] # <<>>}) <= 1

\* C19 witness: send_email on the default account failed in the adapter; the
\* adapter was called once and the caller has the error.
C19_Witness ==
    /\ op = "sendEmail"
    /\ call.accountId = Absent
    /\ Len(accounts) = 2
    /\ returned[1].state = "rejected"
    /\ reply.state = "responded"
    /\ reply.isError
    /\ invoked[AdapterOf(1)] = <<"sendEmail">>

\* the adapter call of the single-account operation in progress rejected
SingleFailed == \E k \in 1..Len(returned) : returned[k].state = "rejected"

\* C20: when the adapter call of a single-account operation rejects, the
\* manager call rejects and the handler answers with a response marked as an
\* error whose text is "Error: " followed by the message of the error ("Unknown"
\* for a value that is no Error) and that carries no payload; the handler
\* always answers; a response not marked as an error is given only for a call
\* whose adapter call resolved.
C20_SingleFailurePropagates ==
    op \in SingleMethods =>
        /\ cursor = 0 => reply.state = "responded"
        /\ SingleFailed =>
              /\ reply.state = "responded"
              /\ reply.isError
              /\ reply.manager = ManagerFails(call.tool)
              /\ reply.value = <<>>
              /\ \E k \in 1..Len(returned) :
                    /\ returned[k].state = "rejected"
                    /\ reply.text = <<"Error: ">> \o (IF returned[k].error.instance
                                                       THEN returned[k].error.message
                                                       ELSE <<"Unknown">>)
        /\ (reply.state = "responded" /\ ~reply.isError) =>
              /\ \E k \in 1..Len(returned) : returned[k].state = "fulfilled"
              /\ reply.manager = ManagerSettles(call.tool)

\* C20 witness: mark_as_read on account c was rejected by the adapter with an
\* Error; the manager call rejected and the caller got the error response.
C20_Witness ==
    /\ op = "markAsRead"
    /\ call.accountId = "c"
    /\ \E k \in 1..Len(returned) : returned[k] = Reject(Issue(Unissued("markAsRead")),
                                                         ErrorOf(<<"backend">>))
    /\ reply.manager = "rejected"
    /\ reply.isError
    /\ reply.text = <<"Error: ", "backend">>

\* the text has word among its pieces
Mentions(text, word) == \E k \in 1..Len(text) : text[k] = word

\* a single-account tool with an accountId given was answered with an error
ExplicitFailed ==
    /\ op \in SingleMethods
    /\ Truthy(call.accountId)
    /\ reply.state = "responded"
    /\ reply.isError

\* C21 as claimed: an error response to a single-account tool called with an
\* accountId names the account and the operation beside the error of the adapter.
C21_ErrorContext ==
    ExplicitFailed =>
        /\ Mentions(reply.text, call.accountId)
        /\ Mentions(reply.text, call.tool) \/ Mentions(reply.text, op)

\* C21 as amended: the error response to a single-account tool called with an
\* accountId is "Error: " followed by the message of the error that was thrown
\* and nothing more: it names neither the tool nor the manager method, and it
\* names the account only when the error is that of an unknown account.
C21_BareErrorMessage ==
    ExplicitFailed =>
        /\ ~Mentions(reply.text, call.tool)
        /\ ~Mentions(reply.text, op)
        /\ reply.value = <<>>
        /\ SingleFailed =>
              /\ ~Mentions(reply.text, call.accountId)
              /\ \E k \in 1..Len(returned) :
                    /\ returned[k].state = "rejected"
                    /\ (returned[k].error.instance =>
                          reply.text = <<"Error: ">> \o returned[k].error.message)
        /\ ~SingleFailed =>
              reply.text = <<"Error: ", "Account not found: ", call.accountId>>

\* C21 witness: get_email on account a failed in the adapter with the message
\* "backend"; the caller was given "Error: backend".
C21_Witness ==
    /\ ExplicitFailed
    /\ call = [tool |-> "get_email", accountId |-> "a"]
    /\ SingleFailed
    /\ reply.text = <<"Error: ", "backend">>

\* C25: AccountManager.disconnect calls disconnect() on the adapter of every
\* account of the registry, one after another in registry order; a call that
\* fails is logged and the loop goes on with the next account; the operation
\* never throws and when it has returned the registry is empty and every
\* adapter that was registered has been asked to disconnect exactly once.
C25_Teardown ==
    op = "disconnect" =>
        /\ ~reply.isError
        /\ reply.manager # "rejected"
        /\ \A i \in DOMAIN invoked : invoked[i] \in {<<>>, <<"disconnect">>}
        /\ cursor > 0 =>
              /\ Len(accounts) = Len(returned)
              /\ Pending(cursor)
              /\ \A k \in 1..Len(accounts) :
                    /\ k < cursor => returned[k].state \in {"fulfilled", "rejected"}
                    /\ k <= cursor => invoked[AdapterOf(k)] = <<"disconnect">>
                    /\ k > cursor => invoked[AdapterOf(k)] = <<>> /\ returned[k].state = "unissued"
        /\ cursor = 0 =>
              /\ reply.state = "responded"
              /\ reply.manager = "resolved"
              /\ accounts = <<>>
              /\ \A k \in 1..Len(returned) : returned[k].state \in {"fulfilled", "rejected"}
              /\ Cardinality({i \in DOMAIN invoked : invoked[i] = <<"disconnect">>})
                    = Len(returned)
              /\ Len(reply.logged)
                    = Cardinality({k \in 1..Len(returned) : returned[k].state = "rejected"})

\* C25 witness: of three accounts the disconnect() of the second failed; the
\* third was disconnected all the same, the call returned and the registry is
\* empty.
C25_Witness ==
    /\ op = "disconnect"
    /\ reply.state = "responded"
    /\ Len(returned) = 3
    /\ returned[1].state = "fulfilled"
    /\ returned[2].state = "rejected"
    /\ returned[3].state = "fulfilled"
    /\ invoked[3] = <<"disconnect">>
    /\ reply.logged = <<"b">>
    /\ accounts = <<>>

\* where a message of the result comes from: the registry position of its
\* account and its place in the list the adapter of that account returned
OriginAccount(m) == Position(accounts, m.accountId)

OriginPlace(m) ==
    LET k == OriginAccount(m)
    IN  CHOOSE i \in 1..Len(returned[k].emails) : returned[k].emails[i] = Untagged(m)

\* m comes before n in the concatenation of the per-account results
Precedes(m, n) ==
    \/ OriginAccount(m) < OriginAccount(n)
    \/ OriginAccount(m) = OriginAccount(n) /\ OriginPlace(m) < OriginPlace(n)

\* C26: the list fetchAllUnread or searchAll returns is fixed by the results
\* of the accounts alone, whatever order their calls settled in: it is the
\* tagged results ordered newest first, and two messages with the same
\* timestamp stand in the order of their accounts in the registry and, within
\* one account, in the order the adapter returned them.
C26_StableMerge ==
    Returned =>
        /\ opResult.value = Sort(ExpectedConcat)
        /\ \A x, y \in 1..Len(opResult.value) :
              x < y =>
                 \/ opResult.value[x].date > opResult.value[y].date
                 \/ /\ opResult.value[x].date = opResult.value[y].date
                    /\ Precedes(opResult.value[x], opResult.value[y])

\* C26 witness: accounts a and b both returned a message of timestamp 2, a
\* returned two of them; the result lists a's two in the order a's adapter gave
\* them and b's after them.
C26_Witness ==
    /\ Returned
    /\ Len(accounts) >= 2
    /\ accounts[1].id = "a"
    /\ accounts[2].id = "b"
    /\ returned[1].emails = <<[id |-> "m2", date |-> 2], [id |-> "m1", date |-> 2]>>
    /\ returned[2].emails = <<[id |-> "m1", date |-> 2]>>
    /\ Len(opResult.value) >= 3
    /\ [k \in 1..3 |-> opResult.value[k].id] = <<"m2", "m1", "m1">>
    /\ [k \in 1..3 |-> opResult.value[k].accountId] = <<"a", "a", "b">>

DirectAnswered ==
    /\ op \in {"fetchUnread", "search"}
    /\ call.tool \in DirectTools
    /\ reply.state = "responded"
    /\ ~reply.isError

\* the registry position of the account whose adapter call resolved
Served == CHOOSE k \in 1..Len(returned) : returned[k].state = "fulfilled"

\* C28 as claimed: the messages fetch_unread_emails and search_emails return
\* for a given accountId carry the id, the display name and the provider kind
\* of the addressed account, as tagEmail gives them on the unified path.
C28_TaggedLikeUnified ==
    DirectAnswered =>
        /\ Len(reply.value) = Len(returned[Served].value)
        /\ \A j \in 1..Len(reply.value) :
              reply.value[j] = tagEmail(returned[Served].value[j], accounts[Served].config)

\* C28 as amended: the messages fetch_unread_emails and search_emails return
\* for a given accountId carry the id and the display name of the addressed
\* account and no provider kind; each is what the same tool returns for the
\* same message of that account on the unified path, where the provider kind
\* tagEmail added is left out of the answer.
C28_TransportTagging ==
    DirectAnswered =>
        /\ accounts[Served].id = call.accountId
        /\ Len(reply.value) = Len(returned[Served].value)
        /\ \A j \in 1..Len(reply.value) :
              LET m == reply.value[j]
                  e == returned[Served].value[j]
              IN  /\ DOMAIN m = {"id", "date", "accountId", "accountName"}
                  /\ m.id = e.id /\ m.date = e.date
                  /\ m.accountId = accounts[Served].config.id
                  /\ m.accountName = accounts[Served].config.name
                  /\ m = Summary(tagEmail(e, accounts[Served].config))

\* C28 witness: search_emails for account c was answered with the two messages
\* its adapter returned, each with accountId c and accountName Work.
C28_Witness ==
    /\ DirectAnswered
    /\ call = [tool |-> "search_emails", accountId |-> "c"]
    /\ Len(reply.value) = 2
    /\ reply.value[1] = [id |-> "m2", date |-> 3, accountId |-> "c", accountName |-> "Work"]
    /\ reply.value[2].accountName = "Work"

\* C30: getMessage, markAsRead, markAsUnread and deleteEmail called with the
\* accountId left out or empty call no adapter and are answered with an error;
\* they never act on the default account.
C30_AccountIdRequired ==
    (op \in MessageMethods /\ ~Truthy(call.accountId)) =>
        /\ NothingInvoked
        /\ cursor = 0
        /\ reply.state = "responded"
        /\ reply.isError

-----------------------------------------------------------------------------
(* Properties of the adapters *)

Last == journal.last

Prev == journal.prev

\* C22: delete_email on an account whose provider class inherits deleteEmail
\* from EmailProvider is rejected by the adapter with the error "Delete not
\* supported by this provider"; the caller is given an error response with
\* that text; the mailbox, the registry and the default account are as before.
C22_UnsupportedDelete ==
    (adapter.kind = "plain" /\ Last.method = "deleteEmail") =>
        /\ Last.state = "rejected"
        /\ Last.error = DeleteNotSupported
        /\ reply.state = "responded"
        /\ reply.isError
        /\ reply.manager = "rejected"
        /\ reply.text = <<"Error: ", "Delete not supported by this provider">>
        /\ Last.box = Last.pre
        /\ adapter.box = Last.pre
        /\ Len(accounts) = 1
        /\ accounts[1].id = "a"
        /\ accounts[1].config = config[1]
        /\ defaultAccountId = "a"

\* C22 witness: deleteEmail of message 1, which is in the mailbox unread, on
\* such an adapter; the message is still there and the caller has the error.
C22_Witness ==
    /\ adapter.kind = "plain"
    /\ Last.method = "deleteEmail"
    /\ Last.id = "1"
    /\ Last.pre["1"] = "unread"
    /\ adapter.box["1"] = "unread"
    /\ reply.isError

\* the last two calls are `first` and then `second` on the same message, which
\* was in the mailbox, and the first one resolved
Twice(first, second) ==
    /\ Prev.method = first
    /\ Prev.state = "fulfilled"
    /\ Prev.pre[Prev.id] # "absent"
    /\ Last.method = second
    /\ Last.id = Prev.id

\* what get_email gave when it followed a mark operation on the same message
ReadBack(unread) ==
    /\ Last.state = "fulfilled"
    /\ Len(Last.value) = 1
    /\ Last.value[1].isUnread = unread
    /\ reply.state = "responded"
    /\ ~reply.isError
    /\ Len(reply.value) = 1
    /\ reply.value[1].isUnread = unread

\* C23: for every provider kind, a second markAsRead (markAsUnread) on the same
\* message resolves and leaves the mailbox as the first one left it, and a
\* getMessage that follows a markAsRead (markAsUnread) returns the message
\* with isUnread false (true).
C23_IdempotentMark ==
    adapter.kind \in KnownProviders =>
        /\ \A mark \in {"markAsRead", "markAsUnread"} :
              Twice(mark, mark) => Last.state = "fulfilled" /\ Last.box = Prev.box
        /\ Twice("markAsRead", "getMessage") => ReadBack(FALSE)
        /\ Twice("markAsUnread", "getMessage") => ReadBack(TRUE)

\* the call found a session that a successful connect() had opened
InSession(e) == e.era \in {"open", "reopened"}

\* C24: for every provider kind, getMessage for an id the mailbox does not hold
\* settles, and settles with null and not with an error; get_email then
\* answers with null and no error.
C24_NotFoundIsNull ==
    (/\ adapter.kind \in KnownProviders
     /\ Last.method = "getMessage"
     /\ InSession(Last)
     /\ Last.pre[Last.id] = "absent") =>
        /\ Last.state = "fulfilled"
        /\ Last.value = <<>>
        /\ reply.state = "responded"
        /\ ~reply.isError
        /\ reply.value = <<>>

\* the call was answered from the mailbox: it resolved, unless it asked for a
\* message that is not there
ServedFromMailbox(e) ==
    \/ e.state = "fulfilled"
    \/ e.method \in MessageMethods /\ e.pre[e.id] = "absent"

\* C29: for each provider kind, disconnect() resolves, any number of times and
\* also before connect(), and leaves the adapter without a session; every other
\* method called before a successful connect() or after disconnect() is
\* rejected with an error; after a successful connect() that follows a
\* disconnect() the methods are served again.
C29_SessionLifecycle ==
    adapter.kind \in KnownProviders =>
        /\ Last.method = "disconnect" =>
              /\ Last.state = "fulfilled"
              /\ adapter.handle = "null"
              /\ ~adapter.transporter
        /\ (Prev.method = "disconnect" /\ Last.method = "disconnect") =>
              /\ Last.handle = Prev.handle
              /\ Last.transporter = Prev.transporter
              /\ Last.box = Prev.box
        /\ (Last.method \in AdapterMethods /\ ~InSession(Last)) => Last.state = "rejected"
        /\ (Last.method = "connect" /\ Last.state = "fulfilled") => adapter.handle = "ready"
        /\ (Last.method \in AdapterMethods /\ Last.era = "reopened") => ServedFromMailbox(Last)

-----------------------------------------------------------------------------
(* Properties of the registry over its whole life *)

\* the records whose adapter the registry holds
Held == {accounts[k].provider : k \in 1..Len(accounts)}

\* C31: when the load has completed, every adapter whose connect() succeeded is
\* held by the registry, also when two records of the manifest have the same
\* id, so that disconnect, which goes through the registry, reaches it.
C31_NoLeakedSessions ==
    loadPc = "done" => \A i \in Records : outcome[i] = "connected" => i \in Held


\* C36: in every state, also after AccountManager.disconnect, the default
\* account id is unset or is the id of an account in the registry.
C36_DefaultRegistered ==
    defaultAccountId = Null \/ defaultAccountId \in Keys(accounts)


-----------------------------------------------------------------------------
(* Properties of the startup *)

\* a tool call is being handled or has been answered
Handling == call # NoCall \/ reply # NoReply

\* C34: no tool call is handled before loadAccounts has completed; the
\* transport is connected only after the load has settled successfully; when
\* the load fails, the transport is never connected and no call is ever served.
C34_StartupOrdering ==
    /\ [](Handling => (transport = "connected" /\ loadPc = "done"))
    /\ [](transport = "connected" => loadPc = "done")
    /\ [](loadPc = "threw" => [](transport = "closed" /\ ~Handling))

C34_Witness ==
    /\ transport = "connected"
    /\ call # NoCall
    /\ call.tool = "list_accounts"
    /\ reply.state = "responded"


\* the rows list_accounts has answered with
Listed == call # NoCall /\ call.tool = "list_accounts" /\ reply.state = "responded"

DefaultRows == {k \in 1..Len(reply.value) : reply.value[k].isDefault}

\* C35: after the load, list_accounts answers with one row per account of the
\* registry, in registry order; exactly one row has isDefault when the registry
\* is not empty and none when it is, whatever the manifest marked and whichever
\* accounts connected.
C35_OneDefaultListed ==
    Listed =>
        /\ Len(reply.value) = Len(accounts)
        /\ \A k \in 1..Len(accounts) : reply.value[k].id = accounts[k].id
        /\ Cardinality(DefaultRows) = IF accounts = <<>> THEN 0 ELSE 1

\* two accounts are listed, both marked in the manifest
C35_Witness ==
    /\ Listed
    /\ Len(reply.value) = 2
    /\ Cardinality(Marked) = 2
    /\ Cardinality(DefaultRows) = 1

\* the marked account failed to connect and another is listed as the default
C35_WitnessFailedMark ==
    /\ Listed
    /\ Len(reply.value) = 1
    /\ \E i \in Marked : outcome[i] = "failed"
    /\ Cardinality(DefaultRows) = 1


-----------------------------------------------------------------------------
(* Properties of the IMAP connection *)

\* the commands the operation of this side ran after its openBox
Ran(side) == {imap.ops[side].ran[k] : k \in 1..Len(imap.ops[side].ran)}

\* C32: when two operations on one IMAP adapter overlap, every search, fetch,
\* flag or expunge command of an operation runs on the mailbox, and in the
\* access mode, that this operation opened.
C32_OwnMailbox ==
    \A side \in Sides : \A box \in Ran(side) : box = imap.ops[side].opened

\* C33: fetchUnread and search return at most maxResults messages, for every
\* maxResults >= 0: the matching messages with the highest UIDs, highest first.
C33_ResultBound ==
    \A side \in Sides :
        LET o == imap.ops[side]
        IN  (o.method \in {"fetchUnread", "search"} /\ o.state = "resolved")
                => /\ Len(o.emails) <= o.maxResults
                   /\ \A k \in 1..Len(o.emails) :
                         o.emails[k].id = o.found[Len(o.found) + 1 - k]

====
